---- MODULE Spec2Model ----
(***************************************************************************)
(* State-machine model of the NBA Monte Carlo betting engine:              *)
(*   engine/game_simulator.py     simulate_single_game                     *)
(*   engine/monte_carlo_engine.py run_monte_carlo_simulation,              *)
(*                                calculate_betting_edge                   *)
(*   engine/betting_analyzer.py   compute_model_report, _run_simulation,   *)
(*                                _evaluate_betting_edge                   *)
(*                                                                         *)
(* Number representation.  Python floats are modelled by exact numbers:    *)
(*   - ratings, paces and four-factor values are fixed point (the unit is  *)
(*     stated at each definition);                                         *)
(*   - scores and margins are integers (points), as in the code;           *)
(*   - a spread is an integer count of half points (HalfPoint == 2 per     *)
(*     point), so -7 is the line -3.5;                                     *)
(*   - every quantity the code divides (means, percentages,                *)
(*     probabilities, expected value) is an exact rational [n, d] in       *)
(*     lowest terms with d > 0.                                            *)
(* The process-wide generator of Python's random module is one integer     *)
(* state; every random.normalvariate call reads it and advances it.        *)
(***************************************************************************)
EXTENDS Integers, Sequences, FiniteSets, TLC

(***************************************************************************)
(* Bounds of the model.                                                    *)
(***************************************************************************)
\* largest num_simulations a caller passes
MaxSims == 3
\* number of states of the process-wide generator
RngModulus == 32

(***************************************************************************)
(* Exact rational arithmetic (stands for Python float arithmetic).         *)
(***************************************************************************)
Abs(x) == IF x < 0 THEN -x ELSE x

\* the elements of a sequence
Range(q) == {q[i] : i \in 1 .. Len(q)}

Max(a, b) == IF a >= b THEN a ELSE b

Min(a, b) == IF a <= b THEN a ELSE b

RECURSIVE GCD(_, _)
GCD(a, b) == IF b = 0 THEN a ELSE GCD(b, a % b)

\* the rational n/d in lowest terms, d > 0
Rat(n, d) ==
    LET s == IF d < 0 THEN -1 ELSE 1
        g == GCD(Abs(n), Abs(d))
    IN  [n |-> (s * n) \div g, d |-> (s * d) \div g]

RInt(k) == [n |-> k, d |-> 1]

RAdd(a, b) == Rat(a.n * b.d + b.n * a.d, a.d * b.d)

RSub(a, b) == Rat(a.n * b.d - b.n * a.d, a.d * b.d)

RMul(a, b) == Rat(a.n * b.n, a.d * b.d)

\* a / b, b # 0
RDiv(a, b) == Rat(a.n * b.d, a.d * b.n)

RLt(a, b) == a.n * b.d < b.n * a.d

RLe(a, b) == a.n * b.d <= b.n * a.d

RMax(a, b) == IF RLe(b, a) THEN a ELSE b

(***************************************************************************)
(* The process-wide random generator (module random).                      *)
(*   RngStep    the generator's state after one draw                       *)
(*   RngZ       the standard-normal deviate a draw returns, in whole       *)
(*              standard deviations (-2 .. 2)                              *)
(*   RngSeed    the state random.seed(seed) installs                       *)
(***************************************************************************)
RngStates == 0 .. (RngModulus - 1)

RngStep(r) == (5 * r + 3) % RngModulus

RngZ(r) == ((r + r \div 5) % 5) - 2

RngSeed(seed) == (7 * seed + 1) % RngModulus

\* random.normalvariate(mu, sigma) drawn in generator state r
NormalVariate(mu, sigma, r) == mu + RngZ(r) * sigma

(***************************************************************************)
(* engine/statistical_models.py: TeamStats and create_team_stats.          *)
(* Units: pace, ortg, drtg in tenths (1000 is 100.0); the four factors in  *)
(* thousandths (540 is 0.540); the misc scoring stats in tenths of a point *)
(* (150 is 15.0).  The standard deviations are the constants the factory   *)
(* sets.                                                                   *)
(***************************************************************************)
create_team_stats(base_stats, four_factors_stats, misc_stats) ==
    [pace |-> base_stats.pace, pace_std |-> 40,
     ortg |-> base_stats.ortg, ortg_std |-> 60,
     drtg |-> base_stats.drtg, drtg_std |-> 50,
     efg_pct |-> four_factors_stats.efg_pct, efg_pct_std |-> 40,
     fta_rate |-> four_factors_stats.fta_rate, fta_rate_std |-> 30,
     tov_pct |-> four_factors_stats.tov_pct, tov_pct_std |-> 20,
     oreb_pct |-> four_factors_stats.oreb_pct, oreb_pct_std |-> 30,
     opp_efg_pct |-> four_factors_stats.opp_efg_pct, opp_efg_pct_std |-> 40,
     opp_fta_rate |-> four_factors_stats.opp_fta_rate, opp_fta_rate_std |-> 30,
     opp_tov_pct |-> four_factors_stats.opp_tov_pct, opp_tov_pct_std |-> 20,
     opp_oreb_pct |-> four_factors_stats.opp_oreb_pct, opp_oreb_pct_std |-> 30,
     pts_off_tov |-> misc_stats.pts_off_tov, pts_off_tov_std |-> 30,
     pts_2nd_chance |-> misc_stats.pts_2nd_chance, pts_2nd_chance_std |-> 25,
     opp_pts_off_tov |-> misc_stats.opp_pts_off_tov, opp_pts_off_tov_std |-> 30,
     opp_pts_2nd_chance |-> misc_stats.opp_pts_2nd_chance,
     opp_pts_2nd_chance_std |-> 25]

\* the league-average defaults create_team_stats uses for missing inputs
DefaultFourFactors ==
    [efg_pct |-> 540, fta_rate |-> 250, tov_pct |-> 140, oreb_pct |-> 280,
     opp_efg_pct |-> 540, opp_fta_rate |-> 250, opp_tov_pct |-> 140,
     opp_oreb_pct |-> 280]

DefaultMisc ==
    [pts_off_tov |-> 150, pts_2nd_chance |-> 120,
     opp_pts_off_tov |-> 150, opp_pts_2nd_chance |-> 120]

\* The team profiles callers pass: the two teams of the modules' own tests,
\* the second with four factors and misc stats off the league average.
Teams == {"A", "B"}

TeamProfile(t) ==
    IF t = "A"
    THEN create_team_stats([pace |-> 1000, ortg |-> 1150, drtg |-> 1080],
                           DefaultFourFactors, DefaultMisc)
    ELSE create_team_stats([pace |-> 980, ortg |-> 1100, drtg |-> 1120],
                           [efg_pct |-> 560, fta_rate |-> 260, tov_pct |-> 130,
                            oreb_pct |-> 290, opp_efg_pct |-> 530,
                            opp_fta_rate |-> 240, opp_tov_pct |-> 150,
                            opp_oreb_pct |-> 270],
                           [pts_off_tov |-> 165, pts_2nd_chance |-> 130,
                            opp_pts_off_tov |-> 140, opp_pts_2nd_chance |-> 115])

\* TeamStats(...) built directly, every standard deviation the same
TeamStatsWithStd(base_stats, four_factors_stats, misc_stats, std) ==
    [f \in DOMAIN create_team_stats(base_stats, four_factors_stats, misc_stats)
        |-> IF f \in {"pace_std", "ortg_std", "drtg_std", "efg_pct_std",
                      "fta_rate_std", "tov_pct_std", "oreb_pct_std",
                      "opp_efg_pct_std", "opp_fta_rate_std",
                      "opp_tov_pct_std", "opp_oreb_pct_std",
                      "pts_off_tov_std", "pts_2nd_chance_std",
                      "opp_pts_off_tov_std", "opp_pts_2nd_chance_std"}
            THEN std
            ELSE create_team_stats(base_stats, four_factors_stats,
                                   misc_stats)[f]]

\* The team stats simulate_single_game and _compute_efficiency_multiplier
\* are called with on their own: the two test teams; L, a league-average
\* team that does not vary from game to game; W, a team at the low end of
\* every statistic on offence and defence; S, a team at the high end.
GameTeams == Teams \cup {"L", "W", "S"}

\* D and E: two teams of one kind, slow and poor on offence, strong on
\* defence; their games against each other mostly end at the minimum score
\* on both sides.
LowScoringTeams == {"D", "E"}

GameProfile(t) ==
    CASE t \in Teams -> TeamProfile(t)
      [] t \in LowScoringTeams ->
            create_team_stats([pace |-> 850, ortg |-> 900, drtg |-> 950],
                              [efg_pct |-> 450, fta_rate |-> 150,
                               tov_pct |-> 220, oreb_pct |-> 180,
                               opp_efg_pct |-> 450, opp_fta_rate |-> 150,
                               opp_tov_pct |-> 220, opp_oreb_pct |-> 180],
                              [pts_off_tov |-> 80, pts_2nd_chance |-> 60,
                               opp_pts_off_tov |-> 80,
                               opp_pts_2nd_chance |-> 60])
      [] t = "L" ->
            TeamStatsWithStd([pace |-> 1000, ortg |-> 1100, drtg |-> 1100],
                             DefaultFourFactors, DefaultMisc, 0)
      [] t = "W" ->
            create_team_stats([pace |-> 850, ortg |-> 900, drtg |-> 1250],
                              [efg_pct |-> 450, fta_rate |-> 150,
                               tov_pct |-> 220, oreb_pct |-> 180,
                               opp_efg_pct |-> 650, opp_fta_rate |-> 350,
                               opp_tov_pct |-> 80, opp_oreb_pct |-> 360],
                              [pts_off_tov |-> 80, pts_2nd_chance |-> 60,
                               opp_pts_off_tov |-> 260,
                               opp_pts_2nd_chance |-> 220])
      [] t = "S" ->
            create_team_stats([pace |-> 1100, ortg |-> 1250, drtg |-> 950],
                              [efg_pct |-> 650, fta_rate |-> 350,
                               tov_pct |-> 80, oreb_pct |-> 360,
                               opp_efg_pct |-> 450, opp_fta_rate |-> 150,
                               opp_tov_pct |-> 220, opp_oreb_pct |-> 180],
                              [pts_off_tov |-> 260, pts_2nd_chance |-> 220,
                               opp_pts_off_tov |-> 80,
                               opp_pts_2nd_chance |-> 60])

\* league_avg_ortg, in tenths (110.0)
LeagueAvgOrtg == 1100

(***************************************************************************)
(* engine/game_simulator.py                                                *)
(***************************************************************************)
LEAGUE_AVG_FOUR_FACTORS ==
    [efg_pct |-> 540, fta_rate |-> 250, tov_pct |-> 140, oreb_pct |-> 280]

LEAGUE_AVG_MISC == [pts_off_tov |-> 150, pts_2nd_chance |-> 120]

\* weights in hundredths
FOUR_FACTOR_WEIGHTS ==
    [efg_pct |-> 40, fta_rate |-> 15, tov_pct |-> 25, oreb_pct |-> 20]

MISC_FACTOR_WEIGHTS == [pts_off_tov |-> 10, pts_2nd_chance |-> 10]

\* multiplier bounds in millionths (0.85, 1.15)
MULTIPLIER_BOUNDS == <<850000, 1150000>>

\* the generator's state after k draws from state r
RECURSIVE RngAfter(_, _)
RngAfter(r, k) == IF k = 0 THEN r ELSE RngStep(RngAfter(r, k - 1))

\* integer quotient rounded toward zero (fixed-point image of float division)
TruncDiv(a, b) == IF a >= 0 THEN a \div b ELSE -((-a) \div b)

\* _sample_stat drawn in generator state r
SampleStat(value, deviation, lower, upper, r) ==
    Max(lower, Min(upper, NormalVariate(value, deviation, r)))

\* _normalized_diff, in ten-thousandths
NormalizedDiff(value, league_avg, higher_better) ==
    IF higher_better
    THEN TruncDiv((value - league_avg) * 10000, league_avg)
    ELSE TruncDiv((league_avg - value) * 10000, league_avg)

\* _factor_component, in millionths
FactorComponent(off_value, def_value, league_avg, weight, higher_better_off, higher_better_def) ==
    LET off_dev == NormalizedDiff(off_value, league_avg, higher_better_off)
        def_dev == NormalizedDiff(def_value, league_avg, higher_better_def)
    IN  TruncDiv(weight * (off_dev - def_dev), 2)

\* the twelve values _compute_efficiency_multiplier samples, in draw order,
\* starting in generator state r
SampledFactors(off_team, def_team, r) ==
    [efg_pct |-> SampleStat(off_team.efg_pct, off_team.efg_pct_std, 450, 650, RngAfter(r, 0)),
     fta_rate |-> SampleStat(off_team.fta_rate, off_team.fta_rate_std, 150, 350, RngAfter(r, 1)),
     tov_pct |-> SampleStat(off_team.tov_pct, off_team.tov_pct_std, 80, 220, RngAfter(r, 2)),
     oreb_pct |-> SampleStat(off_team.oreb_pct, off_team.oreb_pct_std, 180, 360, RngAfter(r, 3)),
     pts_off_tov |-> SampleStat(off_team.pts_off_tov, off_team.pts_off_tov_std, 80, 260, RngAfter(r, 4)),
     pts_2nd_chance |-> SampleStat(off_team.pts_2nd_chance, off_team.pts_2nd_chance_std, 60, 220, RngAfter(r, 5)),
     opp_efg_pct |-> SampleStat(def_team.opp_efg_pct, def_team.opp_efg_pct_std, 450, 650, RngAfter(r, 6)),
     opp_fta_rate |-> SampleStat(def_team.opp_fta_rate, def_team.opp_fta_rate_std, 150, 350, RngAfter(r, 7)),
     opp_tov_pct |-> SampleStat(def_team.opp_tov_pct, def_team.opp_tov_pct_std, 80, 220, RngAfter(r, 8)),
     opp_oreb_pct |-> SampleStat(def_team.opp_oreb_pct, def_team.opp_oreb_pct_std, 180, 360, RngAfter(r, 9)),
     opp_pts_off_tov |-> SampleStat(def_team.opp_pts_off_tov, def_team.opp_pts_off_tov_std, 80, 260, RngAfter(r, 10)),
     opp_pts_2nd_chance |-> SampleStat(def_team.opp_pts_2nd_chance, def_team.opp_pts_2nd_chance_std, 60, 220, RngAfter(r, 11))]

\* mutation of UnclampedMultiplier: the turnover component is oriented like
\* the other five
UnclampedMultiplierTurnoversUnflipped(s) ==
    1000000
    + FactorComponent(s.efg_pct, s.opp_efg_pct, LEAGUE_AVG_FOUR_FACTORS.efg_pct,
                      FOUR_FACTOR_WEIGHTS.efg_pct, TRUE, FALSE)
    + FactorComponent(s.fta_rate, s.opp_fta_rate, LEAGUE_AVG_FOUR_FACTORS.fta_rate,
                      FOUR_FACTOR_WEIGHTS.fta_rate, TRUE, FALSE)
    + FactorComponent(s.tov_pct, s.opp_tov_pct, LEAGUE_AVG_FOUR_FACTORS.tov_pct,
                      FOUR_FACTOR_WEIGHTS.tov_pct, TRUE, FALSE)
    + FactorComponent(s.oreb_pct, s.opp_oreb_pct, LEAGUE_AVG_FOUR_FACTORS.oreb_pct,
                      FOUR_FACTOR_WEIGHTS.oreb_pct, TRUE, FALSE)
    + FactorComponent(s.pts_off_tov, s.opp_pts_off_tov, LEAGUE_AVG_MISC.pts_off_tov,
                      MISC_FACTOR_WEIGHTS.pts_off_tov, TRUE, FALSE)
    + FactorComponent(s.pts_2nd_chance, s.opp_pts_2nd_chance,
                      LEAGUE_AVG_MISC.pts_2nd_chance,
                      MISC_FACTOR_WEIGHTS.pts_2nd_chance, TRUE, FALSE)

\* the multiplier before clamping, from the twelve sampled values
UnclampedMultiplier(s) ==
    1000000
    + FactorComponent(s.efg_pct, s.opp_efg_pct, LEAGUE_AVG_FOUR_FACTORS.efg_pct,
                      FOUR_FACTOR_WEIGHTS.efg_pct, TRUE, FALSE)
    + FactorComponent(s.fta_rate, s.opp_fta_rate, LEAGUE_AVG_FOUR_FACTORS.fta_rate,
                      FOUR_FACTOR_WEIGHTS.fta_rate, TRUE, FALSE)
    + FactorComponent(s.tov_pct, s.opp_tov_pct, LEAGUE_AVG_FOUR_FACTORS.tov_pct,
                      FOUR_FACTOR_WEIGHTS.tov_pct, FALSE, TRUE)
    + FactorComponent(s.oreb_pct, s.opp_oreb_pct, LEAGUE_AVG_FOUR_FACTORS.oreb_pct,
                      FOUR_FACTOR_WEIGHTS.oreb_pct, TRUE, FALSE)
    + FactorComponent(s.pts_off_tov, s.opp_pts_off_tov, LEAGUE_AVG_MISC.pts_off_tov,
                      MISC_FACTOR_WEIGHTS.pts_off_tov, TRUE, FALSE)
    + FactorComponent(s.pts_2nd_chance, s.opp_pts_2nd_chance,
                      LEAGUE_AVG_MISC.pts_2nd_chance,
                      MISC_FACTOR_WEIGHTS.pts_2nd_chance, TRUE, FALSE)

\* mutation of ComputeEfficiencyMultiplier: no lower bound
ComputeEfficiencyMultiplierNoFloor(off_team, def_team, r) ==
    Min(MULTIPLIER_BOUNDS[2],
        UnclampedMultiplier(SampledFactors(off_team, def_team, r)))

\* _compute_efficiency_multiplier entered in generator state r (12 draws)
ComputeEfficiencyMultiplier(off_team, def_team, r) ==
    Max(MULTIPLIER_BOUNDS[1],
        Min(MULTIPLIER_BOUNDS[2],
            UnclampedMultiplier(SampledFactors(off_team, def_team, r))))

\* Python round() of x hundredths to an integer: nearest, ties to even
RoundHalfEven(x) ==
    LET q == x \div 100
        rem == x % 100
    IN  IF rem < 50 THEN q
        ELSE IF rem > 50 THEN q + 1
        ELSE IF q % 2 = 0 THEN q ELSE q + 1

\* mutation of FinalScore: no minimum score
FinalScoreUnclamped(score) == RoundHalfEven(score)

\* simulate_single_game lines 242-243: max(70, round(score)), score in
\* hundredths
FinalScore(score) == Max(70, RoundHalfEven(score))

\* half points per point: a spread s is s / HalfPoint points
HalfPoint == 2

\* mutation of HomeCovers: a margin equal to the line counts as a cover
HomeCoversOrEqual(home_margin, spread) ==
    IF spread < 0
    THEN home_margin * HalfPoint >= Abs(spread)
    ELSE home_margin * HalfPoint >= -spread

\* mutation of HomeCovers: the underdog branch compares with +spread
HomeCoversSignSlip(home_margin, spread) ==
    IF spread < 0
    THEN home_margin * HalfPoint > Abs(spread)
    ELSE home_margin * HalfPoint > spread

\* simulate_single_game lines 249-258: does the home team cover
HomeCovers(home_margin, spread) ==
    IF spread < 0
    THEN home_margin * HalfPoint > Abs(spread)
    ELSE home_margin * HalfPoint > -spread

\* draws one call of simulate_single_game makes
DrawsPerGame == 33

\* simulate_single_game entered in generator state r; home_court_advantage
\* in hundredths of a point.  Returns the GameResult and the generator's
\* state after the call.
simulate_single_game(home_stats, away_stats, league_avg_ortg, spread, home_court_advantage, r) ==
    LET home_game_pace == Max(850, NormalVariate(home_stats.pace, home_stats.pace_std, RngAfter(r, 0)))
        away_game_pace == Max(850, NormalVariate(away_stats.pace, away_stats.pace_std, RngAfter(r, 1)))
        home_game_ortg == Max(900, NormalVariate(home_stats.ortg, home_stats.ortg_std, RngAfter(r, 2)))
        away_game_ortg == Max(900, NormalVariate(away_stats.ortg, away_stats.ortg_std, RngAfter(r, 3)))
        home_game_drtg == Max(950, NormalVariate(home_stats.drtg, home_stats.drtg_std, RngAfter(r, 4)))
        away_game_drtg == Max(950, NormalVariate(away_stats.drtg, away_stats.drtg_std, RngAfter(r, 5)))
        game_pace == Max(850, Min(1100,
                        (home_game_pace + away_game_pace) \div 2
                        + NormalVariate(0, 20, RngAfter(r, 6))))
        home_efficiency_multiplier ==
            ComputeEfficiencyMultiplier(home_stats, away_stats, RngAfter(r, 7))
        away_efficiency_multiplier ==
            ComputeEfficiencyMultiplier(away_stats, home_stats, RngAfter(r, 19))
        \* adjusted points per 100 possessions, in tenths
        home_adj_ppp == (((home_game_ortg * away_game_drtg) \div league_avg_ortg)
                         * home_efficiency_multiplier) \div 1000000
        away_adj_ppp == (((away_game_ortg * home_game_drtg) \div league_avg_ortg)
                         * away_efficiency_multiplier) \div 1000000
        \* expected scores in hundredths of a point
        home_expected == (game_pace * home_adj_ppp) \div 100 + home_court_advantage
        away_expected == (game_pace * away_adj_ppp) \div 100
        home_raw == home_expected + NormalVariate(0, 800, RngAfter(r, 31))
        away_raw == away_expected + NormalVariate(0, 800, RngAfter(r, 32))
        home_score == FinalScore(home_raw)
        away_score == FinalScore(away_raw)
        home_margin == home_score - away_score
    IN  [game |-> [home_score |-> home_score,
                   away_score |-> away_score,
                   home_margin |-> home_margin,
                   home_covers |-> HomeCovers(home_margin, spread),
                   total_points |-> home_score + away_score],
         rng |-> RngAfter(r, DrawsPerGame)]

(***************************************************************************)
(* engine/monte_carlo_engine.py: run_monte_carlo_simulation                *)
(***************************************************************************)
\* seed = None
NoSeed == -1

\* mutation of SimulationCountRejected: a count of zero is accepted
SimulationCountRejectedNegativeOnly(num_simulations) == num_simulations < 0

\* lines 70-73: num_simulations <= 0 raises ValueError
SimulationCountRejected(num_simulations) == num_simulations <= 0

\* mutation of SeedGenerator: the seed is not applied
SeedGeneratorIgnored(seed, r) == r

\* lines 75-77: the generator's state after the optional random.seed(seed)
SeedGenerator(seed, r) == IF seed # NoSeed THEN RngSeed(seed) ELSE r

\* math.isclose(a, b, abs_tol=1e-9), a and b in half points.  The default
\* rel_tol is 1e-9 too; both tolerances are 1 / TolDenominator.  On the
\* half-point grid a difference is within a tolerance t iff it is at most
\* the integer part of t.
TolDenominator == 1000000000

IsClose(a, b) ==
    Abs(a - b) <= Max(Max(Abs(a), Abs(b)) \div TolDenominator,
                      HalfPoint \div TolDenominator)

\* mutation of IsPush: the margin is compared with +spread and -spread
IsPushEitherSign(home_margin, spread) ==
    \/ IsClose(home_margin * HalfPoint, -spread)
    \/ IsClose(home_margin * HalfPoint, spread)

\* line 119: is the game a push
IsPush(home_margin, spread) == IsClose(home_margin * HalfPoint, -spread)

\* mutation of CountOutcome: push (either sign) and cover are counted
\* independently
CountOutcomeIndependent(covers, pushes, game, spread) ==
    [covers_count |-> IF game.home_covers THEN covers + 1 ELSE covers,
     push_count |-> IF IsPushEitherSign(game.home_margin, spread)
                    THEN pushes + 1 ELSE pushes]

\* lines 122-125: the counters after one game
CountOutcome(covers, pushes, game, spread) ==
    IF IsPush(game.home_margin, spread)
    THEN [covers_count |-> covers, push_count |-> pushes + 1]
    ELSE IF game.home_covers
         THEN [covers_count |-> covers + 1, push_count |-> pushes]
         ELSE [covers_count |-> covers, push_count |-> pushes]

\* mutation of WelfordUpdate: m2 accumulates delta squared
WelfordUpdateDeltaSquared(count, mean, m2, home_margin) ==
    LET count1 == count + 1
        delta == RSub(RInt(home_margin), mean)
    IN  [margin_count |-> count1,
         margin_mean |-> RAdd(mean, RDiv(delta, RInt(count1))),
         margin_m2 |-> RAdd(m2, RMul(delta, delta))]

\* lines 131-136: Welford's update of (margin_count, margin_mean, margin_m2)
WelfordUpdate(count, mean, m2, home_margin) ==
    LET count1 == count + 1
        delta == RSub(RInt(home_margin), mean)
        mean1 == RAdd(mean, RDiv(delta, RInt(count1)))
        delta2 == RSub(RInt(home_margin), mean1)
    IN  [margin_count |-> count1,
         margin_mean |-> mean1,
         margin_m2 |-> RAdd(m2, RMul(delta, delta2))]

\* floor of the square root of n >= 0, searched between lo and hi
RECURSIVE ISqrtBetween(_, _, _)
ISqrtBetween(n, lo, hi) ==
    IF lo >= hi THEN lo
    ELSE LET mid == (lo + hi + 1) \div 2
         IN  IF mid * mid <= n
             THEN ISqrtBetween(n, mid, hi)
             ELSE ISqrtBetween(n, lo, mid - 1)

\* math.sqrt on fixed-point numbers: floor of the square root
ISqrt(n) == ISqrtBetween(n, 0, Min(n, 46340))

\* floor of the rational a (a >= 0) times k
RFloorTimes(a, k) == (a.n * k) \div a.d

\* mutation of MarginVariance: the variance is kept above a small positive
\* floor
MarginVarianceFloored(count, m2) ==
    IF count # 0 THEN RMax(Rat(1, 100), RDiv(m2, RInt(count))) ELSE RInt(0)

\* line 147: margin_variance = margin_m2 / margin_count if margin_count
\* else 0.0
MarginVariance(count, m2) ==
    IF count # 0 THEN RDiv(m2, RInt(count)) ELSE RInt(0)

\* line 148: margin_std = math.sqrt(margin_variance), in tenths of a point
MarginStd(margin_variance) == ISqrt(RFloorTimes(margin_variance, 100))

\* line 149: margin_standard_error = margin_std / math.sqrt(margin_count)
\* if margin_count else 0.0, in tenths of a point
MarginStandardError(margin_std, count) ==
    IF count # 0 THEN (margin_std * 1000) \div ISqrt(count * 1000000) ELSE 0

\* lines 152-153: (ci_lower, ci_upper) = avg_margin -/+ 1.96 * standard error
ConfidenceInterval95(avg_margin, margin_standard_error) ==
    <<RSub(avg_margin, Rat(196 * margin_standard_error, 1000)),
      RAdd(avg_margin, Rat(196 * margin_standard_error, 1000))>>

\* lines 138-173: the SimulationResults built after the loop.
\* margin_variance is kept beside the fields of the tuple, exact.
Summarize(num_simulations, covers, pushes, wins, home_total, away_total, count, mean, m2) ==
    [games_simulated |-> num_simulations,
     home_covers_count |-> covers,
     home_covers_percentage |-> RMul(Rat(covers, num_simulations), RInt(100)),
     push_count |-> pushes,
     push_percentage |-> RMul(Rat(pushes, num_simulations), RInt(100)),
     home_wins_count |-> wins,
     home_win_percentage |-> RMul(Rat(wins, num_simulations), RInt(100)),
     average_home_score |-> Rat(home_total, num_simulations),
     average_away_score |-> Rat(away_total, num_simulations),
     average_margin |-> mean,
     margin_variance |-> MarginVariance(count, m2),
     margin_std |-> MarginStd(MarginVariance(count, m2)),
     confidence_interval_95 |->
         ConfidenceInterval95(mean,
             MarginStandardError(MarginStd(MarginVariance(count, m2)),
                                 count))]

(***************************************************************************)
(* engine/monte_carlo_engine.py: calculate_betting_edge                    *)
(***************************************************************************)
\* mutation of CalculateBettingEdge: pushes are counted as losses
CalculateBettingEdgeNoPush(simulation_results, decimal_odds) ==
    LET win_prob == RDiv(simulation_results.home_covers_percentage, RInt(100))
        push_prob == RDiv(simulation_results.push_percentage, RInt(100))
        loss_prob == RMax(RInt(0), RSub(RInt(1), win_prob))
        profit_if_win == RSub(decimal_odds, RInt(1))
        expected_value == RSub(RMul(win_prob, profit_if_win),
                               RMul(loss_prob, RInt(1)))
        breakeven_probability == RDiv(RSub(RInt(1), push_prob), decimal_odds)
    IN  [expected_value |-> expected_value,
         edge_percentage |-> RMul(expected_value, RInt(100)),
         win_probability |-> win_prob,
         push_probability |-> push_prob,
         loss_probability |-> loss_prob,
         true_probability |-> win_prob,
         implied_probability |-> RDiv(RInt(1), decimal_odds),
         probability_difference |-> RSub(win_prob, breakeven_probability),
         breakeven_probability |-> breakeven_probability]

\* mutation of CalculateBettingEdge: the break-even probability ignores
\* pushes
CalculateBettingEdgeImpliedBreakeven(simulation_results, decimal_odds) ==
    LET win_prob == RDiv(simulation_results.home_covers_percentage, RInt(100))
        push_prob == RDiv(simulation_results.push_percentage, RInt(100))
        loss_prob == RMax(RInt(0), RSub(RSub(RInt(1), win_prob), push_prob))
        profit_if_win == RSub(decimal_odds, RInt(1))
        expected_value == RSub(RMul(win_prob, profit_if_win),
                               RMul(loss_prob, RInt(1)))
        breakeven_probability == RDiv(RInt(1), decimal_odds)
    IN  [expected_value |-> expected_value,
         edge_percentage |-> RMul(expected_value, RInt(100)),
         win_probability |-> win_prob,
         push_probability |-> push_prob,
         loss_probability |-> loss_prob,
         true_probability |-> win_prob,
         implied_probability |-> RDiv(RInt(1), decimal_odds),
         probability_difference |-> RSub(win_prob, breakeven_probability),
         breakeven_probability |-> breakeven_probability]

\* mutation of CalculateBettingEdge: the odds are taken as the profit
CalculateBettingEdgeOddsAsProfit(simulation_results, decimal_odds) ==
    LET win_prob == RDiv(simulation_results.home_covers_percentage, RInt(100))
        push_prob == RDiv(simulation_results.push_percentage, RInt(100))
        loss_prob == RMax(RInt(0), RSub(RSub(RInt(1), win_prob), push_prob))
        profit_if_win == decimal_odds
        expected_value == RSub(RMul(win_prob, profit_if_win),
                               RMul(loss_prob, RInt(1)))
        breakeven_probability == RDiv(RSub(RInt(1), push_prob), decimal_odds)
    IN  [expected_value |-> expected_value,
         edge_percentage |-> RMul(expected_value, RInt(100)),
         win_probability |-> win_prob,
         push_probability |-> push_prob,
         loss_probability |-> loss_prob,
         true_probability |-> win_prob,
         implied_probability |-> RDiv(RInt(1), decimal_odds),
         probability_difference |-> RSub(win_prob, breakeven_probability),
         breakeven_probability |-> breakeven_probability]

CalculateBettingEdge(simulation_results, decimal_odds) ==
    LET win_prob == RDiv(simulation_results.home_covers_percentage, RInt(100))
        push_prob == RDiv(simulation_results.push_percentage, RInt(100))
        loss_prob == RMax(RInt(0), RSub(RSub(RInt(1), win_prob), push_prob))
        profit_if_win == RSub(decimal_odds, RInt(1))
        expected_value == RSub(RMul(win_prob, profit_if_win),
                               RMul(loss_prob, RInt(1)))
        breakeven_probability == RDiv(RSub(RInt(1), push_prob), decimal_odds)
    IN  [expected_value |-> expected_value,
         edge_percentage |-> RMul(expected_value, RInt(100)),
         win_probability |-> win_prob,
         push_probability |-> push_prob,
         loss_probability |-> loss_prob,
         true_probability |-> win_prob,
         implied_probability |-> RDiv(RInt(1), decimal_odds),
         probability_difference |-> RSub(win_prob, breakeven_probability),
         breakeven_probability |-> breakeven_probability]

\* mutation of OddsRejected: odds of exactly 1.0 are accepted
OddsRejectedBelowOne(decimal_odds) == RLt(decimal_odds, RInt(1))

\* lines 218-221: the odds calculate_betting_edge rejects with ValueError
OddsRejected(decimal_odds) == RLe(decimal_odds, RInt(1))

(***************************************************************************)
(* engine/betting_analyzer.py                                              *)
(***************************************************************************)
\* _validate_inputs: recency_weight in tenths; TRUE iff no ValueError
ValidateInputs(recency_weight, num_simulations) ==
    /\ 0 <= recency_weight /\ recency_weight <= 10
    /\ ~(num_simulations <= 0)

\* _run_simulation: the seed it hands to run_monte_carlo_simulation.  The
\* call at lines 282-288 passes no seed argument, so the callee's default
\* (None) applies whatever seed _run_simulation was given.
RunSimulationSeed(seed) == NoSeed

\* compute_model_report line 419: the seed it hands to _run_simulation
ReportSeed(seed, backtest_mode) == IF backtest_mode THEN seed ELSE NoSeed

\* the label's fixed part; the code appends " on <home_team> spread"
PositiveEV == "POSITIVE EV BET"

NoBet == "NO BET - LINE IS EFFICIENT."

\* mutation of DecisionLabel: an edge of exactly 2.0 is a bet
DecisionLabelAtLeast(edge_percent) ==
    IF RLe(RInt(2), edge_percent) THEN PositiveEV ELSE NoBet

\* _evaluate_betting_edge lines 298-301: the decision label
DecisionLabel(edge_percent) ==
    IF RLt(RInt(2), edge_percent) THEN PositiveEV ELSE NoBet

(***************************************************************************)
(* Inputs the callers pass.                                                *)
(***************************************************************************)
\* spreads in half points: -3.5, -3.0, 0.0, +3.0
Spreads == {-7, -6, 0, 6}

\* integer seeds (42 is the backtest runner's default); NoSeed is None
Seeds == {7, 42}

NumSimulations == {-5, 0} \cup (1 .. MaxSims)

\* decimal odds compute_model_report is given: 1.0 (rejected), 2.0, 2.04
ReportOdds == {Rat(1, 1), Rat(2, 1), Rat(51, 25)}

\* decimal odds calculate_betting_edge is given: 0.5 and 1.0 (rejected),
\* 1.01, 1.91, 2.0, 2.04
EdgeOdds ==
    {Rat(1, 2), Rat(1, 1), Rat(101, 100), Rat(191, 100), Rat(2, 1),
     Rat(51, 25)}

\* percentages a SimulationResults can hold
Percentages == {0, 25, 45, 50, 51, 55, 60, 100}

\* home_covers_percentage and push_percentage of the SimulationResults
\* calculate_betting_edge is given: run_monte_carlo_simulation computes them
\* from the counts of two outcomes no game has both of, so they never add up
\* to more than 100
SummaryPercentages ==
    {cp \in Percentages \X Percentages : cp[1] + cp[2] <= 100}

\* recency_weight in tenths: 0.7 and 1.2 (rejected)
RecencyWeights == {7, 12}

\* simulate_single_game's default home_court_advantage (2.0), in hundredths
HomeCourtAdvantage == 200

(***************************************************************************)
(* State.                                                                  *)
(***************************************************************************)
VARIABLES
    rng,              \* state of the process-wide generator of module random
    pc,               \* "idle", "loop", "returned" (run_monte_carlo_simulation
                      \* or calculate_betting_edge returned), "reported"
                      \* (compute_model_report or _evaluate_betting_edge
                      \* returned), "raised" (an exception left the call)
    call,             \* the arguments of the call in progress
    covers_count, push_count, home_wins,
    total_home_score, total_away_score,
    margin_count, margin_mean, margin_m2,
    game,             \* the GameResult of the latest loop iteration
    margins,          \* history: the margins folded so far, in order
    result,           \* the SimulationResults returned
    edge_analysis,    \* the dict calculate_betting_edge returned
    decision,         \* the label _evaluate_betting_edge chose
    entry,            \* history: the generator's state when the call in
                      \* progress was made
    prev,             \* history: the previous seeded call, its result and
                      \* its entry, kept while the same call is made again
    request,          \* the JSON body of the POST /run being handled
    response,         \* the JSON response the /run handler sent last
    row,              \* the dataset row (game) the backtest is working on
    multiplier,       \* the value _compute_efficiency_multiplier returned
    peer,             \* a second run_monte_carlo_simulation call, made by
                      \* another thread of the process: its local variables
    api_cache,        \* the SimpleCache files of the as-of fetchers
    team_stats,       \* the dict get_team_stats_asof returned
    results_dir,      \* the files of results/ that results_storage writes
    backtest,         \* run_backtest's local variables
    out               \* the value a function called on its own returned

vars == <<rng, pc, call, covers_count, push_count, home_wins,
          total_home_score, total_away_score, margin_count, margin_mean,
          margin_m2, game, margins, result, edge_analysis, decision, entry,
          prev, request, response, row, multiplier, peer, api_cache,
          team_stats, results_dir, backtest, out>>

NoCall ==
    [kind |-> "none", home |-> "A", away |-> "A", spread |-> 0,
     num_simulations |-> 0, seed |-> NoSeed, report_seed |-> NoSeed,
     backtest_mode |-> FALSE, recency_weight |-> 0, decimal_odds |-> RInt(0)]

NoGame ==
    [home_score |-> 0, away_score |-> 0, home_margin |-> 0,
     home_covers |-> FALSE, total_points |-> 0]

NoResult == Summarize(1, 0, 0, 0, 0, 0, 0, RInt(0), RInt(0))

NoEdge == CalculateBettingEdge(NoResult, RInt(2))

\* no request is being handled
NoRequest ==
    [simulation_mode |-> "none", numSimulations |-> [int |-> TRUE, value |-> 0]]

\* no response has been sent
NoResponse == [sent |-> FALSE, ok |-> FALSE, num_simulations |-> 0]

\* no dataset row is being processed
NoRow ==
    [loaded |-> FALSE, home |-> "A", away |-> "A", spread |-> 0,
     whos_favored |-> "home", spread_home_close_signed |-> 0]

\* results/ holds no run
NoResultsDir ==
    [history |-> <<>>, latest |-> <<>>, saved |-> <<>>, comparisons |-> {}]

\* run_backtest is not running
NoBacktest == [pc |-> "idle"]

\* nothing was returned
NoOut == [kind |-> "none"]

\* no second call is in progress
NoPeer == [pc |-> "idle"]

\* the cache directory is empty
NoCache == <<>>

\* get_team_stats_asof has returned nothing
NoTeamStats ==
    [as_of |-> 0, season |-> {}, four_factors |-> {}, misc |-> {},
     last_n |-> {}]

\* the state of the web application
web == <<request, response>>

\* the state of the backtest's data: dataset row, cache and fetched stats
data == <<row, api_cache, team_stats>>

\* the state around a run of the engine
\* the files of results/, run_backtest's variables, a returned value
stores == <<results_dir, backtest, out>>

extras == <<web, data, multiplier, peer, stores>>

accumulators == <<covers_count, push_count, home_wins, total_home_score,
                  total_away_score, margin_count, margin_mean, margin_m2,
                  game, margins>>

\* lines 81-89: the tracking variables before the loop
ResetAccumulators ==
    /\ covers_count' = 0
    /\ push_count' = 0
    /\ home_wins' = 0
    /\ total_home_score' = 0
    /\ total_away_score' = 0
    /\ margin_count' = 0
    /\ margin_mean' = RInt(0)
    /\ margin_m2' = RInt(0)
    /\ game' = NoGame
    /\ margins' = <<>>

Init ==
    /\ rng \in RngStates
    /\ pc = "idle"
    /\ call = NoCall
    /\ covers_count = 0
    /\ push_count = 0
    /\ home_wins = 0
    /\ total_home_score = 0
    /\ total_away_score = 0
    /\ margin_count = 0
    /\ margin_mean = RInt(0)
    /\ margin_m2 = RInt(0)
    /\ game = NoGame
    /\ margins = <<>>
    /\ result = NoResult
    /\ edge_analysis = NoEdge
    /\ decision = NoBet
    /\ entry = 0
    /\ prev = {}
    /\ request = NoRequest
    /\ response = NoResponse
    /\ row = NoRow
    /\ multiplier = 0
    /\ peer = NoPeer
    /\ results_dir = NoResultsDir
    /\ backtest = NoBacktest
    /\ out = NoOut
    /\ api_cache = NoCache
    /\ team_stats = NoTeamStats

(***************************************************************************)
(* Actions.                                                                *)
(***************************************************************************)
\* Any other code of the process draws from the generator between calls.
OtherDraw ==
    /\ pc = "idle"
    /\ rng' = RngStep(rng)
    /\ UNCHANGED <<pc, call, accumulators, result, edge_analysis, decision,
                   entry, prev, extras>>

\* run_monte_carlo_simulation lines 70-89, for the call c
EnterSimulation(c) ==
    /\ call' = c
    /\ entry' = rng
    /\ prev' = {p \in prev : p.call = c}
    /\ ResetAccumulators
    /\ UNCHANGED <<result, edge_analysis, decision>>
    /\ IF SimulationCountRejected(c.num_simulations)
       THEN pc' = "raised" /\ rng' = rng
       ELSE pc' = "loop" /\ rng' = SeedGenerator(c.seed, rng)

\* the calls that may come next: any call, or, while a call is remembered
\* in prev, that call again
NextCalls(calls) == IF prev = {} THEN calls ELSE {p.call : p \in prev}

\* the pairs <<home, away>> of team stats run_monte_carlo_simulation is
\* called with
Matchups == {<<"A", "B">>, <<"B", "A">>, <<"D", "E">>}

AllRunCalls ==
    {[kind |-> "run", home |-> m[1], away |-> m[2], spread |-> spread,
      num_simulations |-> n, seed |-> seed, report_seed |-> NoSeed,
      backtest_mode |-> FALSE, recency_weight |-> 0, decimal_odds |-> RInt(0)] :
        m \in Matchups, spread \in Spreads,
        n \in NumSimulations, seed \in Seeds \cup {NoSeed}}

RunCalls == {c \in AllRunCalls : c.home # c.away}

\* A caller calls run_monte_carlo_simulation directly.
CallRunMonteCarlo ==
    /\ pc = "idle"
    /\ \E c \in NextCalls(RunCalls) :
          /\ c.kind = "run"
          /\ EnterSimulation(c)
    /\ UNCHANGED extras

\* the call compute_model_report(..., sportsbook_line, decimal_odds,
\* num_simulations, backtest_mode, seed) with the team profiles built from
\* the fetched statistics
ReportCall(home, away, spread, n, seed, backtest_mode, recency_weight, decimal_odds) ==
    [kind |-> "report", home |-> home, away |-> away, spread |-> spread,
     num_simulations |-> n,
     seed |-> RunSimulationSeed(ReportSeed(seed, backtest_mode)),
     report_seed |-> seed, backtest_mode |-> backtest_mode,
     recency_weight |-> recency_weight, decimal_odds |-> decimal_odds]

AllReportCalls ==
    {ReportCall(home, away, spread, n, seed, backtest_mode, recency_weight,
                decimal_odds) :
        home \in Teams, away \in Teams, spread \in Spreads,
        n \in NumSimulations, seed \in Seeds \cup {NoSeed},
        backtest_mode \in BOOLEAN, recency_weight \in RecencyWeights,
        decimal_odds \in ReportOdds}

ReportCalls == {c \in AllReportCalls : c.home # c.away}

\* compute_model_report up to the start of the simulation loop: line 352
\* (_validate_inputs), the data collection (its outcome is the two team
\* profiles), _run_simulation and the entry of run_monte_carlo_simulation.
EnterReport(c) ==
    IF ValidateInputs(c.recency_weight, c.num_simulations)
    THEN EnterSimulation(c)
    ELSE /\ pc' = "raised"
         /\ call' = c
         /\ entry' = rng
         /\ prev' = {}
         /\ UNCHANGED <<rng, accumulators, result, edge_analysis, decision>>

\* A caller calls compute_model_report.
CallComputeModelReport ==
    /\ pc = "idle"
    /\ \E c \in NextCalls(ReportCalls) :
          /\ c.kind = "report"
          /\ EnterReport(c)
    /\ UNCHANGED extras

\* backtesting/runner.py _process_single_game lines 333-345: the report the
\* backtest asks for one game, with the configured simulation count and
\* seed (42 by default, or None)
BacktestCalls ==
    {c \in ReportCalls : /\ c.backtest_mode
                         /\ c.recency_weight = 7
                         /\ c.decimal_odds = Rat(2, 1)
                         /\ c.report_seed \in {42, NoSeed}}

\* The backtest runner processes one game (again, when a backtest is
\* re-run).
ProcessSingleGame ==
    /\ pc = "idle"
    /\ \E c \in NextCalls(BacktestCalls) :
          /\ c.kind = "report"
          /\ EnterReport(c)
    /\ UNCHANGED extras

\* line 110: the call simulate_single_game(home_stats, away_stats,
\* league_avg_ortg, spread) for every argument and generator state
SimulatedGame ==
    [m \in Matchups, spread \in Spreads, r \in RngStates |->
        simulate_single_game(GameProfile(m[1]), GameProfile(m[2]),
                             LeagueAvgOrtg, spread, HomeCourtAdvantage, r)]

\* One iteration of the loop, lines 102-136.
SimulationStep ==
    /\ pc = "loop"
    /\ margin_count < call.num_simulations
    /\ LET sim == SimulatedGame[<<call.home, call.away>>, call.spread, rng]
           g == sim.game
           counts == CountOutcome(covers_count, push_count, g, call.spread)
           w == WelfordUpdate(margin_count, margin_mean, margin_m2, g.home_margin)
       IN  /\ rng' = sim.rng
           /\ game' = g
           /\ covers_count' = counts.covers_count
           /\ push_count' = counts.push_count
           /\ home_wins' = IF g.home_margin > 0 THEN home_wins + 1 ELSE home_wins
           /\ total_home_score' = total_home_score + g.home_score
           /\ total_away_score' = total_away_score + g.away_score
           /\ margin_count' = w.margin_count
           /\ margin_mean' = w.margin_mean
           /\ margin_m2' = w.margin_m2
           /\ margins' = Append(margins, g.home_margin)
    /\ UNCHANGED <<pc, call, result, edge_analysis, decision, entry, prev,
                   extras>>

\* the summary the loop's accumulators give, lines 138-173
CurrentSummary ==
    Summarize(call.num_simulations, covers_count, push_count, home_wins,
              total_home_score, total_away_score, margin_count, margin_mean,
              margin_m2)

\* run_monte_carlo_simulation returns to a direct caller, lines 138-173.
SimulationReturn ==
    /\ pc = "loop"
    /\ call.kind = "run"
    /\ margin_count = call.num_simulations
    /\ result' = CurrentSummary
    /\ pc' = "returned"
    /\ UNCHANGED <<rng, call, accumulators, edge_analysis, decision, entry,
                   prev, extras>>

\* _evaluate_betting_edge for the summary sr: calculate_betting_edge raises,
\* or the edge dict and the decision label are set
EvaluateBettingEdge(sr, decimal_odds) ==
    IF OddsRejected(decimal_odds)
    THEN /\ pc' = "raised"
         /\ UNCHANGED <<edge_analysis, decision>>
    ELSE /\ pc' = "reported"
         /\ edge_analysis' = CalculateBettingEdge(sr, decimal_odds)
         /\ decision' = DecisionLabel(edge_analysis'.edge_percentage)

\* run_monte_carlo_simulation returns to compute_model_report, which calls
\* _evaluate_betting_edge (lines 422-430) and builds its report.
ReportReturn ==
    /\ pc = "loop"
    /\ call.kind = "report"
    /\ margin_count = call.num_simulations
    /\ result' = CurrentSummary
    /\ EvaluateBettingEdge(CurrentSummary, call.decimal_odds)
    /\ UNCHANGED <<rng, call, accumulators, entry, prev, extras>>

\* The caller takes the outcome and the process is ready for the next call.
\* A call whose repeat is to be compared with it is remembered in prev, or
\* not.
ReleaseWith(comparable) ==
    /\ pc \in {"returned", "reported", "raised"}
    /\ \/ prev' = {}
       \/ comparable /\ prev' = {[call |-> call, result |-> result,
                                   entry |-> entry]}
    /\ pc' = "idle"
    /\ call' = NoCall
    /\ ResetAccumulators
    /\ result' = NoResult
    /\ edge_analysis' = NoEdge
    /\ decision' = NoBet
    /\ entry' = 0
    /\ UNCHANGED rng

\* ... after a call of the engine; seeded direct runs are compared
Release ==
    /\ ReleaseWith(pc = "returned" /\ call.seed # NoSeed)
    /\ UNCHANGED extras

\* ... after a game of the backtest; seeded reports are compared
ReleaseBacktest ==
    /\ ReleaseWith(pc = "reported" /\ call.report_seed # NoSeed)
    /\ UNCHANGED extras

\* ... after a call of the edge calculator
ReleaseEdge ==
    /\ ReleaseWith(FALSE)
    /\ UNCHANGED extras

\* the SimulationResults a caller hands to the edge calculator
GivenSummary(covers_percentage, push_percentage) ==
    [NoResult EXCEPT !.home_covers_percentage = RInt(covers_percentage),
                     !.push_percentage = RInt(push_percentage)]

\* A caller calls calculate_betting_edge(simulation_results, decimal_odds).
CallCalculateBettingEdge ==
    /\ pc = "idle"
    /\ \E cp \in SummaryPercentages, odds \in EdgeOdds :
          /\ call' = [NoCall EXCEPT !.kind = "edge", !.decimal_odds = odds]
          /\ result' = GivenSummary(cp[1], cp[2])
          /\ IF OddsRejected(odds)
             THEN pc' = "raised" /\ UNCHANGED edge_analysis
             ELSE /\ pc' = "returned"
                  /\ edge_analysis' = CalculateBettingEdge(result', odds)
    /\ entry' = rng
    /\ UNCHANGED <<rng, accumulators, decision, prev, extras>>

\* A caller calls _evaluate_betting_edge(simulation_results, decimal_odds,
\* home_team).
CallEvaluateBettingEdge ==
    /\ pc = "idle"
    /\ \E cp \in SummaryPercentages, odds \in EdgeOdds :
          /\ call' = [NoCall EXCEPT !.kind = "evaluate", !.decimal_odds = odds]
          /\ result' = GivenSummary(cp[1], cp[2])
          /\ EvaluateBettingEdge(result', odds)
    /\ entry' = rng
    /\ UNCHANGED <<rng, accumulators, prev, extras>>

(***************************************************************************)
(* engine/game_simulator.py called on its own                              *)
(***************************************************************************)
\* draws one call of _compute_efficiency_multiplier makes
DrawsPerMultiplier == 12

\* A caller calls simulate_single_game(home_stats, away_stats,
\* league_avg_ortg, spread).
CallSimulateSingleGame ==
    /\ pc = "idle"
    /\ \E home \in GameTeams, away \in GameTeams, spread \in Spreads :
          LET sim == simulate_single_game(GameProfile(home), GameProfile(away),
                                          LeagueAvgOrtg, spread,
                                          HomeCourtAdvantage, rng)
          IN  /\ call' = [NoCall EXCEPT !.kind = "game", !.home = home,
                                        !.away = away, !.spread = spread]
              /\ game' = sim.game
              /\ rng' = sim.rng
    /\ entry' = rng
    /\ pc' = "returned"
    /\ UNCHANGED <<covers_count, push_count, home_wins, total_home_score,
                   total_away_score, margin_count, margin_mean, margin_m2,
                   margins, result, edge_analysis, decision, prev, extras>>

\* simulate_single_game calls _compute_efficiency_multiplier(off_team,
\* def_team); call.home is the offence, call.away the defence.
CallComputeEfficiencyMultiplier ==
    /\ pc = "idle"
    /\ \E off_team \in GameTeams, def_team \in GameTeams :
          /\ call' = [NoCall EXCEPT !.kind = "multiplier", !.home = off_team,
                                    !.away = def_team]
          /\ multiplier' = ComputeEfficiencyMultiplier(GameProfile(off_team),
                                                       GameProfile(def_team),
                                                       rng)
    /\ rng' = RngAfter(rng, DrawsPerMultiplier)
    /\ entry' = rng
    /\ pc' = "returned"
    /\ UNCHANGED <<accumulators, result, edge_analysis, decision, prev, web,
                   data, peer, stores>>

\* The caller takes the game or the multiplier.
ReleaseGame ==
    /\ ReleaseWith(FALSE)
    /\ multiplier' = 0
    /\ UNCHANGED <<web, data, peer, stores>>

(***************************************************************************)
(* Two run_monte_carlo_simulation calls in one process, on two threads.    *)
(* The first call's local variables are the variables of the loop above,   *)
(* the second call's are the fields of peer; the generator of module       *)
(* random is the one both draw from.  A thread switch is followed between  *)
(* games, not inside one.                                                  *)
(***************************************************************************)
\* the calls the two threads make: seeded runs of one or two games
ThreadCalls ==
    {c \in RunCalls : /\ c.seed # NoSeed
                      /\ c.num_simulations \in 1 .. 2
                      /\ c.home = "A"
                      /\ c.spread = -7}

\* the local variables of a call before its loop, lines 81-89
LoopStart(c, r) ==
    [pc |-> "loop", call |-> c, rng |-> r, covers_count |-> 0,
     push_count |-> 0, home_wins |-> 0, total_home_score |-> 0,
     total_away_score |-> 0, margin_count |-> 0, margin_mean |-> RInt(0),
     margin_m2 |-> RInt(0)]

\* one iteration of the loop, lines 102-136, on the local variables l,
\* drawing from the generator in state r
LoopIteration(l, r) ==
    LET sim == SimulatedGame[<<l.call.home, l.call.away>>, l.call.spread, r]
        g == sim.game
        counts == CountOutcome(l.covers_count, l.push_count, g, l.call.spread)
        w == WelfordUpdate(l.margin_count, l.margin_mean, l.margin_m2,
                           g.home_margin)
    IN  [l EXCEPT !.rng = sim.rng,
                  !.covers_count = counts.covers_count,
                  !.push_count = counts.push_count,
                  !.home_wins = IF g.home_margin > 0 THEN @ + 1 ELSE @,
                  !.total_home_score = @ + g.home_score,
                  !.total_away_score = @ + g.away_score,
                  !.margin_count = w.margin_count,
                  !.margin_mean = w.margin_mean,
                  !.margin_m2 = w.margin_m2]

\* the summary of the local variables l, lines 138-173
LoopSummary(l) ==
    Summarize(l.call.num_simulations, l.covers_count, l.push_count,
              l.home_wins, l.total_home_score, l.total_away_score,
              l.margin_count, l.margin_mean, l.margin_m2)

\* the local variables of a call after k iterations made with no other
\* draw from the generator in between
RECURSIVE LoopAlone(_, _)
LoopAlone(c, k) ==
    IF k = 0
    THEN LoopStart(c, SeedGenerator(c.seed, 0))
    ELSE LET l == LoopAlone(c, k - 1) IN LoopIteration(l, l.rng)

\* what the seeded call c returns when it runs alone
RunAlone(c) == LoopSummary(LoopAlone(c, c.num_simulations))

\* The second thread calls run_monte_carlo_simulation: lines 70-89.
PeerEnter ==
    /\ peer.pc = "idle"
    /\ \E c \in ThreadCalls :
          /\ rng' = SeedGenerator(c.seed, rng)
          /\ peer' = LoopStart(c, rng')
    /\ UNCHANGED <<pc, call, accumulators, result, edge_analysis, decision,
                   entry, prev, web, data, multiplier, stores>>

\* One iteration of the second thread's loop.
PeerStep ==
    /\ peer.pc = "loop"
    /\ peer.margin_count < peer.call.num_simulations
    /\ peer' = LoopIteration(peer, rng)
    /\ rng' = peer'.rng
    /\ UNCHANGED <<pc, call, accumulators, result, edge_analysis, decision,
                   entry, prev, web, data, multiplier, stores>>

\* The second thread's call returns.
PeerReturn ==
    /\ peer.pc = "loop"
    /\ peer.margin_count = peer.call.num_simulations
    /\ peer' = [pc |-> "returned", call |-> peer.call,
                result |-> LoopSummary(peer)]
    /\ UNCHANGED <<rng, pc, call, accumulators, result, edge_analysis,
                   decision, entry, prev, web, data, multiplier, stores>>

\* The second thread takes its result.
PeerRelease ==
    /\ peer.pc = "returned"
    /\ peer' = NoPeer
    /\ UNCHANGED <<rng, pc, call, accumulators, result, edge_analysis,
                   decision, entry, prev, web, data, multiplier, stores>>

\* The first thread calls run_monte_carlo_simulation.
ThreadEnter ==
    /\ pc = "idle"
    /\ \E c \in ThreadCalls : EnterSimulation(c)
    /\ UNCHANGED extras

\* The first thread takes its result.
ThreadRelease ==
    /\ ReleaseWith(FALSE)
    /\ UNCHANGED extras

(***************************************************************************)
(* app.py: POST /run                                                       *)
(***************************************************************************)
\* lines 62, 66, 69, 77: the default simulation count
DefaultSimulations == 100000

\* lines 70-71: the high-precision simulation count
HighPrecisionSimulations == 1000000

\* lines 68-72
precision_presets ==
    [standard |-> DefaultSimulations,
     high |-> HighPrecisionSimulations,
     high_precision |-> HighPrecisionSimulations]

\* line 61: (form_data.get('simulationMode') or 'standard'), for modes given
\* in lower case; "" stands for a missing or empty simulationMode
SimulationMode(simulationMode) ==
    IF simulationMode = "" THEN "standard" ELSE simulationMode

\* lines 62-66: int(numSimulations), or the default when it is no number
RequestedNumSimulations(numSimulations) ==
    IF numSimulations.int THEN numSimulations.value ELSE DefaultSimulations

\* lines 73-77: the count the handler passes to compute_model_report
RunNumSimulations(simulationMode, numSimulations) ==
    LET simulation_mode == SimulationMode(simulationMode)
        num_simulations ==
            IF simulation_mode \in DOMAIN precision_presets
            THEN precision_presets[simulation_mode]
            ELSE RequestedNumSimulations(numSimulations)
    IN  IF num_simulations <= 0 THEN DefaultSimulations ELSE num_simulations

\* simulationMode values of a request: missing, two presets, and one that
\* is no preset
SimulationModes == {"", "standard", "high", "custom"}

\* numSimulations values of a request: integers and one that is no number
RequestCounts ==
    {[int |-> TRUE, value |-> v] : v \in NumSimulations}
        \cup {[int |-> FALSE, value |-> 0]}

\* recencyWeight values of a request, in tenths: the default 0.4, and 1.2
RunRecencyWeights == {4, 12}

\* POST /run arrives: lines 52-101 up to the start of the simulation loop
\* inside compute_model_report, with the default spread (-3.5) and odds
\* (1.91).
RunRequest ==
    /\ pc = "idle"
    /\ \E mode \in SimulationModes, num \in RequestCounts,
          rw \in RunRecencyWeights, home \in Teams, away \in Teams :
          /\ home # away
          /\ request' = [simulation_mode |-> mode, numSimulations |-> num]
          /\ EnterReport(ReportCall(home, away, -7,
                                    RunNumSimulations(mode, num), NoSeed,
                                    FALSE, rw, Rat(191, 100)))
    /\ response' = NoResponse
    /\ UNCHANGED <<data, multiplier, peer, stores>>

\* One iteration of the simulation loop of a request; the first MaxSims
\* games of a request are followed.
RunSimulationStep ==
    /\ margin_count < MaxSims
    /\ SimulationStep

\* lines 103-118: the handler answers, with the report or with the error;
\* request keeps the body answered until the next request arrives
RunRespond ==
    /\ pc \in {"reported", "raised"}
    /\ response' = [sent |-> TRUE, ok |-> pc = "reported",
                    num_simulations |-> IF pc = "reported"
                                        THEN call.num_simulations ELSE 0]
    /\ pc' = "idle"
    /\ call' = NoCall
    /\ ResetAccumulators
    /\ result' = NoResult
    /\ edge_analysis' = NoEdge
    /\ decision' = NoBet
    /\ entry' = 0
    /\ prev' = {}
    /\ UNCHANGED <<rng, request, data, multiplier, peer, stores>>

(***************************************************************************)
(* backtesting/data_loader.py and backtesting/runner.py: a dataset row     *)
(***************************************************************************)
\* derive_game_features lines 214-217: spread_home_close_signed
SpreadHomeCloseSigned(spread, whos_favored) ==
    IF whos_favored = "home" THEN spread ELSE -spread

\* the spread column of a dataset row, a magnitude in half points: 0, 3.0
RowSpreads == {0, 6}

\* the whos_favored column of a dataset row
WhosFavored == {"home", "away"}

\* the simulation counts a backtest is configured with (engine.sims)
BacktestSims == 1 .. 2

\* derive_game_features adds the derived columns to the next row of the
\* dataset.
DeriveGameFeatures ==
    /\ pc = "idle"
    /\ ~row.loaded
    /\ \E home \in Teams, away \in Teams, spread \in RowSpreads,
          whos_favored \in WhosFavored :
          /\ home # away
          /\ row' = [loaded |-> TRUE, home |-> home, away |-> away,
                     spread |-> spread, whos_favored |-> whos_favored,
                     spread_home_close_signed |->
                         SpreadHomeCloseSigned(spread, whos_favored)]
    /\ UNCHANGED <<rng, pc, call, accumulators, result, edge_analysis,
                   decision, entry, prev, web, api_cache, team_stats,
                   multiplier, peer, stores>>

\* _process_single_game lines 333-345 for the row: compute_model_report is
\* called with sportsbook_line = game['spread_home_close_signed'].
ProcessRow ==
    /\ pc = "idle"
    /\ row.loaded
    /\ \E n \in BacktestSims :
          EnterReport(ReportCall(row.home, row.away,
                                 row.spread_home_close_signed, n, 42, TRUE,
                                 7, Rat(2, 1)))
    /\ UNCHANGED extras

\* The runner has the report of the row's game and goes on to the next row.
ReleaseRow ==
    /\ row.loaded
    /\ ReleaseWith(FALSE)
    /\ row' = NoRow
    /\ UNCHANGED <<web, api_cache, team_stats, multiplier, peer, stores>>

(***************************************************************************)
(* Specifications.                                                         *)
(*   Spec          the engine: direct simulation runs and model reports    *)
(*   SpecBacktest  the backtest runner's reports, game after game          *)
(*   SpecEdge      the edge calculator on summaries given by a caller      *)
(*   SpecRun       the web application's POST /run handler                 *)
(*   SpecDataset   the backtest's dataset rows, derived and simulated      *)
(*   SpecGame      the game simulator's functions called on their own      *)
(*   SpecThreads   two simulation runs on two threads of one process       *)
(*   SpecAsof      the as-of statistics fetcher and its cache              *)
(*   SpecStorage   the summaries results_storage keeps in results/         *)
(*   SpecCompare   live metrics compared with a stored backtest run        *)
(*   SpecCache     SimpleCache's set and get called on their own           *)
(*   SpecGrade     the runner grading a bet                                *)
(*   SpecAlias     normalize_team_name called on its own                   *)
(*   SpecRunner    run_backtest's game loop and what follows it            *)
(***************************************************************************)
Next ==
    \/ OtherDraw
    \/ CallRunMonteCarlo
    \/ CallComputeModelReport
    \/ SimulationStep
    \/ SimulationReturn
    \/ ReportReturn
    \/ Release

Spec == Init /\ [][Next]_vars

NextBacktest ==
    \/ OtherDraw
    \/ ProcessSingleGame
    \/ SimulationStep
    \/ ReportReturn
    \/ ReleaseBacktest

SpecBacktest == Init /\ [][NextBacktest]_vars

NextEdge ==
    \/ CallCalculateBettingEdge
    \/ CallEvaluateBettingEdge
    \/ ReleaseEdge

SpecEdge == Init /\ [][NextEdge]_vars

NextRun ==
    \/ OtherDraw
    \/ RunRequest
    \/ RunSimulationStep
    \/ ReportReturn
    \/ RunRespond

SpecRun == Init /\ [][NextRun]_vars

NextGame ==
    \/ CallSimulateSingleGame
    \/ CallComputeEfficiencyMultiplier
    \/ ReleaseGame

SpecGame == Init /\ [][NextGame]_vars

(***************************************************************************)
(* nba_data/asof_fetchers.py: get_team_stats_asof.                         *)
(* Dates are day numbers of one season and a statistic is represented by   *)
(* the set of game days it was computed from.  The NBA API is outside the  *)
(* repository: a date-filtered request may raise, and whether its DateTo   *)
(* bound includes the games of that day is left open.                      *)
(***************************************************************************)
\* the last day a caller asks about
MaxDay == 4

\* the cache directory holds the files of at most this many dates
MaxCachedDates == 2

\* last_n_window, shortened
LastNWindow == 2

\* the dates a caller passes as as_of
AsOfDates == 1 .. MaxDay

\* the days of the team's regular-season games: the first game is on day 2
\* and the season runs past the last as_of date
SeasonGames == 2 .. (MaxDay + 1)

\* measure_type_detailed_defense of the three season requests
MeasureTypes == {"Advanced", "Four Factors", "Misc"}

\* SimpleCache._get_cache_key: endpoint and parameters
CacheKey(endpoint, date_to, param) == <<endpoint, date_to, param>>

\* the dates some cache file belongs to
CachedDates(cache) == {k[2] : k \in DOMAIN cache}

\* LeagueDashTeamStats(..., date_to_nullable=date_to): the team's row is
\* computed from the games up to date_to
DateFilteredGames(date_to, inclusive) ==
    {d \in SeasonGames : IF inclusive THEN d <= date_to ELSE d < date_to}

\* the games behind the row _fetch_season_stats_asof uses, lines 187-240:
\* the cached frame, else the date-filtered frame, else, when that request
\* raises or has no row of the team, the frame of the whole season
fetch_season_stats_asof(cache, date_to, measure_type, inclusive, raises) ==
    LET key == CacheKey("leaguedashteamstats", date_to, measure_type)
        filtered == DateFilteredGames(date_to, inclusive)
    IN  IF key \in DOMAIN cache THEN cache[key]
        ELSE IF raises \/ filtered = {} THEN SeasonGames
        ELSE filtered

\* the n largest days of a set: sort_values(descending).head(n)
RECURSIVE MostRecent(_, _)
MostRecent(days, n) ==
    IF n = 0 \/ days = {} THEN {}
    ELSE LET latest == CHOOSE d \in days : \A e \in days : e <= d
         IN  {latest} \cup MostRecent(days \ {latest}, n - 1)

\* the games of the frame _fetch_recent_games_asof returns, lines 284-321
fetch_recent_games_asof(cache, date_to, last_n) ==
    LET key == CacheKey("teamgamelogs", date_to, "last_n")
    IN  IF key \in DOMAIN cache THEN cache[key]
        ELSE MostRecent({d \in SeasonGames : d < date_to}, last_n)

\* get_team_stats_asof(team_id, as_of, last_n_window, cache), lines 80-164,
\* with the cache.set calls of the four fetches.
GetTeamStatsAsof ==
    \E as_of \in AsOfDates, inclusive \in BOOLEAN,
       raising \in SUBSET MeasureTypes :
        LET season_stats ==
                [m \in MeasureTypes |->
                    fetch_season_stats_asof(api_cache, as_of, m, inclusive,
                                            m \in raising)]
            game_logs == fetch_recent_games_asof(api_cache, as_of,
                                                 LastNWindow)
            written ==
                [k \in {CacheKey("leaguedashteamstats", as_of, m) :
                            m \in MeasureTypes}
                       \cup {CacheKey("teamgamelogs", as_of, "last_n")} |->
                    IF k[1] = "teamgamelogs" THEN game_logs
                    ELSE season_stats[k[3]]]
        IN  /\ \/ as_of \in CachedDates(api_cache)
               \/ Cardinality(CachedDates(api_cache)) < MaxCachedDates
            /\ api_cache' = api_cache @@ written
            /\ team_stats' = [as_of |-> as_of,
                              season |-> season_stats["Advanced"],
                              four_factors |-> season_stats["Four Factors"],
                              misc |-> season_stats["Misc"],
                              last_n |-> game_logs]
            /\ UNCHANGED <<rng, pc, call, accumulators, result,
                           edge_analysis, decision, entry, prev, web, row,
                           multiplier, peer, stores>>

(***************************************************************************)
(* backtesting/results_storage.py.  results_dir.history is the list in     *)
(* backtest_history.json, in file order, results_dir.latest the content of *)
(* latest_summary.json (empty when absent); results_dir.saved is history:  *)
(* every summary saved so far, in the order of the calls.  A summary is    *)
(* [run_id, timestamp, status, roi_pct]; timestamps are the call numbers.  *)
(* results_dir.comparisons are the backtest ids of the files in            *)
(* results/comparisons.                                                    *)
(***************************************************************************)
\* the number of runs save_backtest_summary keeps in the history file
HistoryLimit == 50

\* the save_backtest_summary calls followed
MaxSaves == 53

\* the element of a non-empty sequence of summaries with the greatest
\* timestamp (the first such)
LatestIndex(h) ==
    CHOOSE i \in 1 .. Len(h) :
        /\ \A j \in 1 .. Len(h) : h[j].timestamp <= h[i].timestamp
        /\ \A j \in 1 .. (i - 1) : h[j].timestamp < h[i].timestamp

\* sorted(history, key=timestamp, reverse=True)
RECURSIVE SortedMostRecentFirst(_)
SortedMostRecentFirst(h) ==
    IF h = <<>> THEN <<>>
    ELSE LET i == LatestIndex(h)
         IN  <<h[i]>> \o SortedMostRecentFirst(
                 SubSeq(h, 1, i - 1) \o SubSeq(h, i + 1, Len(h)))

\* load_all_results(), lines 174-192
load_all_results(dir) == SortedMostRecentFirst(dir.history)

\* history[-n:]
LastOf(h, n) == IF Len(h) > n THEN SubSeq(h, Len(h) - n + 1, Len(h)) ELSE h

\* lines 100-102: the list written back to backtest_history.json
KeptHistory(history) ==
    IF Len(history) > HistoryLimit THEN LastOf(history, HistoryLimit)
    ELSE history

\* save_backtest_summary(results_df, metrics, config, run_dir), lines 39-107
SaveBacktestSummary ==
    /\ Len(results_dir.saved) < MaxSaves
    /\ LET n == Len(results_dir.saved) + 1
           summary == [run_id |-> n, timestamp |-> n, status |-> "completed",
                       roi_pct |-> n % 7]
           history == Append(load_all_results(results_dir), summary)
       IN  results_dir' = [results_dir EXCEPT
                               !.history = KeptHistory(history),
                               !.latest = <<summary>>,
                               !.saved = Append(@, summary)]
    /\ UNCHANGED <<rng, pc, call, accumulators, result, edge_analysis,
                   decision, entry, prev, web, data, multiplier, peer,
                   backtest, out>>

(***************************************************************************)
(* backtesting/runner.py: _calculate_bet_outcome, the grading of a bet.    *)
(* Margins are whole points, spread lines half-points as in the engine.    *)
(***************************************************************************)
\* the final margins of the graded games, in points
FinalMargins == -4 .. 4

\* the closing lines of the graded games, in half-points
SpreadLines == -7 .. 7

\* _calculate_bet_outcome lines 473-512 for a spread bet: "push", "cover"
\* or "loss" of the bet on side
CalculateBetOutcome(side, final_margin_home, spread_home_close_signed) ==
    LET actual_margin == final_margin_home * HalfPoint
        spread_line == spread_home_close_signed
    IN  IF actual_margin = spread_line THEN "push"
        ELSE IF side = "home"
        THEN (IF actual_margin > spread_line THEN "cover" ELSE "loss")
        ELSE (IF actual_margin < spread_line THEN "cover" ELSE "loss")

\* how the engine classifies a simulated game for the home side:
\* monte_carlo_engine.py lines 119-125 with the home_covers of
\* game_simulator.py lines 249-258
EngineOutcome(home_margin, spread) ==
    IF IsPush(home_margin, spread) THEN "push"
    ELSE IF HomeCovers(home_margin, spread) THEN "cover"
    ELSE "loss"

\* The runner grades the bet of a row.
GradeBet ==
    /\ out.kind = "none"
    /\ \E side \in {"home", "away"}, final_margin_home \in FinalMargins,
          spread_home_close_signed \in SpreadLines :
          out' = [kind |-> "graded", side |-> side,
                  final_margin_home |-> final_margin_home,
                  spread_home_close_signed |-> spread_home_close_signed,
                  outcome |-> CalculateBetOutcome(side, final_margin_home,
                                                  spread_home_close_signed)]
    /\ UNCHANGED <<rng, pc, call, accumulators, result, edge_analysis,
                   decision, entry, prev, web, data, multiplier, peer,
                   results_dir, backtest>>

(***************************************************************************)
(* nba_data/asof_fetchers.py: SimpleCache called on its own.  A frame is   *)
(* [rows, game_date]: the games of its rows and the kind of its GAME_DATE  *)
(* column ("datetime" as _fetch_recent_games_asof makes it, "text", or     *)
(* "absent" as in the season frames).  Here api_cache maps a cache key to  *)
(* [file, data]: the content of the key's file and, as history, the frame  *)
(* the latest set call was given.                                          *)
(***************************************************************************)
\* the frames a caller stores
CachedFrames == [rows : SUBSET {1}, game_date : {"datetime", "absent"}]

\* the endpoints the fetchers use
Endpoints == {"leaguedashteamstats", "teamgamelogs"}

\* one params dict written with its keys in either order
ParamsOrders ==
    {<< <<"team_id", 1>>, <<"last_n", 2>> >>,
     << <<"last_n", 2>>, <<"team_id", 1>> >>}

\* _get_cache_key, lines 45-50: json.dumps(params, sort_keys=True) puts the
\* items in one order whatever order the dict has
GetCacheKey(endpoint, params) == <<endpoint, Range(params)>>

\* the frame read back from the file set wrote, lines 61 and 75:
\* data.to_dict('records') dumped with default=str and loaded into
\* pd.DataFrame: a datetime column comes back as text, and a frame without
\* rows comes back without columns
FrameReadBack(frame) ==
    IF frame.rows = {} THEN [frame EXCEPT !.game_date = "absent"]
    ELSE IF frame.game_date = "datetime"
    THEN [frame EXCEPT !.game_date = "text"]
    ELSE frame

\* SimpleCache.set(endpoint, params, data), lines 68-77
CacheSet ==
    /\ out.kind = "none"
    /\ \E endpoint \in Endpoints, params \in ParamsOrders,
          frame \in CachedFrames :
          api_cache' = (GetCacheKey(endpoint, params)
                            :> [file |-> frame, data |-> frame]) @@ api_cache
    /\ UNCHANGED <<rng, pc, call, accumulators, result, edge_analysis,
                   decision, entry, prev, web, row, team_stats, multiplier,
                   peer, stores>>

\* SimpleCache.get(endpoint, params), lines 52-66
CacheGet ==
    /\ out.kind = "none"
    /\ \E endpoint \in Endpoints, params \in ParamsOrders :
          LET key == GetCacheKey(endpoint, params)
          IN  out' = IF key \in DOMAIN api_cache
                     THEN [kind |-> "got", key |-> key, none |-> FALSE,
                           frame |-> FrameReadBack(api_cache[key].file)]
                     ELSE [kind |-> "got", key |-> key, none |-> TRUE,
                           frame |-> [rows |-> {}, game_date |-> "absent"]]
    /\ UNCHANGED <<rng, pc, call, accumulators, result, edge_analysis,
                   decision, entry, prev, web, data, multiplier, peer,
                   results_dir, backtest>>

(***************************************************************************)
(* nba_data/team_alias.py.  A team name is [text, upper, padded]: text is   *)
(* the name in lower case without surrounding blanks, upper says that it   *)
(* is written with capital letters, padded that blanks surround it.        *)
(***************************************************************************)
TEAM_ALIASES ==
       "sea" :> "okc"
    @@ "van" :> "mem"
    @@ "no" :> "nop"
    @@ "brk" :> "bkn"
    @@ "cho" :> "cha"
    @@ "pho" :> "phx"
    @@ "wsh" :> "was"
    @@ "ny" :> "nyk"
    @@ "los angeles lakers" :> "lal"
    @@ "los angeles clippers" :> "lac"
    @@ "golden state warriors" :> "gsw"
    @@ "san antonio spurs" :> "sas"
    @@ "brooklyn nets" :> "brk"
    @@ "new york knicks" :> "nyk"
    @@ "boston celtics" :> "bos"
    @@ "philadelphia 76ers" :> "phi"
    @@ "miami heat" :> "mia"
    @@ "milwaukee bucks" :> "mil"
    @@ "chicago bulls" :> "chi"
    @@ "cleveland cavaliers" :> "cle"
    @@ "detroit pistons" :> "det"
    @@ "indiana pacers" :> "ind"
    @@ "atlanta hawks" :> "atl"
    @@ "charlotte hornets" :> "cho"
    @@ "washington wizards" :> "was"
    @@ "orlando magic" :> "orl"
    @@ "portland trail blazers" :> "por"
    @@ "utah jazz" :> "uta"
    @@ "denver nuggets" :> "den"
    @@ "minnesota timberwolves" :> "min"
    @@ "oklahoma city thunder" :> "okc"
    @@ "dallas mavericks" :> "dal"
    @@ "houston rockets" :> "hou"
    @@ "memphis grizzlies" :> "mem"
    @@ "new orleans pelicans" :> "nop"
    @@ "sacramento kings" :> "sac"
    @@ "phoenix suns" :> "phx"
    @@ "toronto raptors" :> "tor"

\* the abbreviations and names a dataset or a caller passes: the keys and
\* the values of the table, a code outside it, and the empty text
TeamTexts ==
    DOMAIN TEAM_ALIASES \cup {TEAM_ALIASES[k] : k \in DOMAIN TEAM_ALIASES}
        \cup {"lal", ""}

TeamNames == [text : TeamTexts, upper : BOOLEAN, padded : BOOLEAN]

\* str.lower()
Lower(name) == [name EXCEPT !.upper = FALSE]

\* str.strip()
Strip(name) == [name EXCEPT !.padded = FALSE]

\* the empty string, the only falsy one
EmptyName(name) == name.text = "" /\ ~name.padded

\* normalize_team_name(team_name), lines 72-107: raises for the empty
\* string, else the alias of the lowered, stripped name or that name itself
normalize_team_name(team_name) ==
    IF EmptyName(team_name)
    THEN [raised |-> TRUE, value |-> team_name]
    ELSE LET normalized == Strip(Lower(team_name))
         IN  IF normalized.text \in DOMAIN TEAM_ALIASES
             THEN [raised |-> FALSE,
                   value |-> [normalized EXCEPT
                                 !.text = TEAM_ALIASES[normalized.text]]]
             ELSE [raised |-> FALSE, value |-> normalized]

\* A caller normalizes a team name.
CallNormalizeTeamName ==
    /\ out.kind = "none"
    /\ \E team_name \in TeamNames :
          LET r == normalize_team_name(team_name)
          IN  out' = [kind |-> "normalized", input |-> team_name,
                      raised |-> r.raised, value |-> r.value]
    /\ UNCHANGED <<rng, pc, call, accumulators, result, edge_analysis,
                   decision, entry, prev, web, data, multiplier, peer,
                   results_dir, backtest>>

\* The caller takes the value a function called on its own returned.
ReleaseOut ==
    /\ out.kind # "none"
    /\ out' = NoOut
    /\ UNCHANGED <<rng, pc, call, accumulators, result, edge_analysis,
                   decision, entry, prev, web, data, multiplier, peer,
                   results_dir, backtest>>

(***************************************************************************)
(* backtesting/comparison.py: compare_live_vs_backtest.                    *)
(***************************************************************************)
\* backtest_id is None
NoBacktestId == 0

\* the runs stored before a comparison is asked for
MaxStoredRuns == 3

\* roi_pct of the live metrics passed in
LiveRois == {0, 5}

\* get_comparison_benchmark(), results_storage.py lines 195-212: the latest
\* summary when it is completed, as a sequence of at most one benchmark
get_comparison_benchmark(dir) ==
    IF dir.latest # <<>> /\ dir.latest[1].status = "completed"
    THEN <<[backtest_id |-> dir.latest[1].run_id,
            roi_benchmark |-> dir.latest[1].roi_pct]>>
    ELSE <<>>

\* the benchmark compare_live_vs_backtest uses, comparison.py lines 41-46:
\* both branches call get_comparison_benchmark()
ComparisonBenchmark(dir, backtest_id) ==
    IF backtest_id # NoBacktestId
    THEN get_comparison_benchmark(dir)
    ELSE get_comparison_benchmark(dir)

\* A run is stored while few are.
SaveStoredRun ==
    /\ Len(results_dir.saved) < MaxStoredRuns
    /\ SaveBacktestSummary

\* compare_live_vs_backtest(live_metrics, backtest_id), lines 30-95, with
\* the file save_model_comparison writes.  out.as_of is history: the
\* number of runs stored when the comparison was made.
CompareLiveVsBacktest ==
    /\ \E live_roi \in LiveRois,
          backtest_id \in {NoBacktestId}
                             \cup {r.run_id : r \in Range(results_dir.history)} :
          LET benchmark == ComparisonBenchmark(results_dir, backtest_id)
          IN  IF benchmark = <<>>
              THEN /\ out' = [kind |-> "comparison", requested |-> backtest_id,
                              as_of |-> Len(results_dir.saved),
                              error |-> TRUE, backtest_id |-> NoBacktestId,
                              benchmark_roi_pct |-> 0, roi_pct_diff |-> 0]
                   /\ UNCHANGED results_dir
              ELSE /\ out' = [kind |-> "comparison", requested |-> backtest_id,
                              as_of |-> Len(results_dir.saved),
                              error |-> FALSE,
                              backtest_id |-> benchmark[1].backtest_id,
                              benchmark_roi_pct |-> benchmark[1].roi_benchmark,
                              roi_pct_diff |->
                                  live_roi - benchmark[1].roi_benchmark]
                   /\ results_dir' =
                          [results_dir EXCEPT !.comparisons =
                              @ \cup {benchmark[1].backtest_id}]
    /\ UNCHANGED <<rng, pc, call, accumulators, result, edge_analysis,
                   decision, entry, prev, web, data, multiplier, peer,
                   backtest>>

(***************************************************************************)
(* backtesting/runner.py: run_backtest.  backtest holds the local          *)
(* variables of the call: the sorted dataset (games), the position of the  *)
(* loop (idx, the next row), per_game_results, bet_counts of the season,   *)
(* daily_bet_counts, and as history the rows _process_single_game was      *)
(* called for (processed), the rows whose processing failed (failed) and   *)
(* how the latest iteration ended (last).  Dates are day numbers.          *)
(***************************************************************************)
\* the rows of the dataset
MaxGames == 3

\* the last date of the dataset
MaxDate == 2

\* the largest max_bets_per_day configured
MaxDailyBets == 2

\* the datasets after df.sort_values(['date', 'game_key']), line 185
Datasets ==
    {g \in [1 .. MaxGames -> 1 .. MaxDate] :
        \A i \in 1 .. (MaxGames - 1) : g[i] <= g[i + 1]}

\* how _process_single_game ends for a row: a bet (a result dict), no bet
\* (None from _make_bet_decision), an exception of the data fetch or the
\* model run (caught at line 347, None), an exception of the bet decision
\* or the bet grading (not caught inside)
GameOutcomes == {"bet", "no_bet", "fetch_raises", "grading_raises"}

\* the outcomes that are failures of processing the game
GameFailures == {"fetch_raises", "grading_raises"}

\* the keys of the dict _process_single_game returns, lines 372-394
ProcessSingleGameColumns ==
    {"game_key", "date", "season_end_year", "home_team", "away_team",
     "market", "side", "close_line", "edge_percentage", "cover_prob",
     "stake", "pnl", "ev_units", "sportsbook_line", "final_margin_home",
     "spread_home_close_signed", "b2b", "three_in_four", "four_in_six",
     "covered", "is_push"}

\* the columns _save_backtest_outputs reads itself, line 550
SaveOutputsColumns == {"season_end_year"}

\* the columns _calculate_season_summary reads, lines 569-584
SeasonSummaryColumns ==
    {"season_end_year", "pnl", "covered", "edge_pts", "stake"}

\* daily_bet_counts.get(game_date_str, 0)
DailyBets(daily_bet_counts, date) ==
    IF date \in DOMAIN daily_bet_counts THEN daily_bet_counts[date] ELSE 0

\* mutation of DailyCapReached: one bet more than the cap passes
DailyCapReachedAbove(current_daily_bets, max_daily_bets) ==
    current_daily_bets > max_daily_bets

\* line 196: the date is at its cap
DailyCapReached(current_daily_bets, max_daily_bets) ==
    current_daily_bets >= max_daily_bets

\* mutation of AfterProcessing: the date's count is raised for every row
\* that was processed
AfterProcessingCountingAll(b, outcome) ==
    LET date == b.games[b.idx]
    IN  [b EXCEPT !.idx = @ + 1,
                  !.last = outcome,
                  !.processed = @ \cup {b.idx},
                  !.failed = IF outcome \in GameFailures
                             THEN @ \cup {b.idx} ELSE @,
                  !.per_game_results = IF outcome = "bet"
                                       THEN Append(@, b.idx) ELSE @,
                  !.bet_counts = IF outcome = "bet" THEN @ + 1 ELSE @,
                  !.daily_bet_counts =
                      (date :> DailyBets(b.daily_bet_counts, date) + 1) @@ @]

\* lines 204-217 for the row at idx, _process_single_game ending in
\* outcome: a result dict is appended and counted, anything else (None or
\* the exception caught at line 225) leaves the three collections alone
AfterProcessing(b, outcome) ==
    LET date == b.games[b.idx]
    IN  [b EXCEPT !.idx = @ + 1,
                  !.last = outcome,
                  !.processed = @ \cup {b.idx},
                  !.failed = IF outcome \in GameFailures
                             THEN @ \cup {b.idx} ELSE @,
                  !.per_game_results = IF outcome = "bet"
                                       THEN Append(@, b.idx) ELSE @,
                  !.bet_counts = IF outcome = "bet" THEN @ + 1 ELSE @,
                  !.daily_bet_counts =
                      IF outcome = "bet"
                      THEN (date :> DailyBets(b.daily_bet_counts, date) + 1)
                               @@ @
                      ELSE @]

\* run_backtest is called: lines 137-188
StartBacktest ==
    /\ backtest.pc = "idle"
    /\ \E games \in Datasets, max_daily_bets \in 0 .. MaxDailyBets :
          backtest' = [pc |-> "loop", games |-> games,
                       max_daily_bets |-> max_daily_bets, idx |-> 1,
                       per_game_results |-> <<>>, bet_counts |-> 0,
                       daily_bet_counts |-> <<>>, processed |-> {},
                       failed |-> {}, last |-> "none"]
    /\ UNCHANGED <<rng, pc, call, accumulators, result, edge_analysis,
                   decision, entry, prev, web, data, multiplier, peer,
                   results_dir, out>>

\* One iteration of the game loop, lines 191-227.
BacktestGame ==
    /\ backtest.pc = "loop"
    /\ backtest.idx <= Len(backtest.games)
    /\ IF DailyCapReached(DailyBets(backtest.daily_bet_counts,
                                   backtest.games[backtest.idx]),
                         backtest.max_daily_bets)
       THEN backtest' = [backtest EXCEPT !.idx = @ + 1, !.last = "capped"]
       ELSE \E outcome \in GameOutcomes :
                backtest' = AfterProcessing(backtest, outcome)
    /\ UNCHANGED <<rng, pc, call, accumulators, result, edge_analysis,
                   decision, entry, prev, web, data, multiplier, peer,
                   results_dir, out>>

\* After the loop, lines 229-281: ValueError without a bet; otherwise the
\* outputs are saved, which reads columns of the per-game frame (a missing
\* column is a KeyError), and the results dictionary is returned.
FinishBacktest ==
    /\ backtest.pc = "loop"
    /\ backtest.idx > Len(backtest.games)
    /\ backtest' =
          [backtest EXCEPT !.pc =
              IF backtest.per_game_results = <<>> THEN "raised"
              ELSE IF (SaveOutputsColumns \cup SeasonSummaryColumns)
                          \subseteq ProcessSingleGameColumns
              THEN "returned"
              ELSE "raised"]
    /\ UNCHANGED <<rng, pc, call, accumulators, result, edge_analysis,
                   decision, entry, prev, web, data, multiplier, peer,
                   results_dir, out>>

\* The caller is back; the next run can start.
ReleaseRunBacktest ==
    /\ backtest.pc \in {"returned", "raised"}
    /\ backtest' = NoBacktest
    /\ UNCHANGED <<rng, pc, call, accumulators, result, edge_analysis,
                   decision, entry, prev, web, data, multiplier, peer,
                   results_dir, out>>

NextThreads ==
    \/ ThreadEnter
    \/ SimulationStep
    \/ SimulationReturn
    \/ ThreadRelease
    \/ PeerEnter
    \/ PeerStep
    \/ PeerReturn
    \/ PeerRelease

SpecThreads == Init /\ [][NextThreads]_vars

NextAsof == GetTeamStatsAsof

NextStorage == SaveBacktestSummary

NextCompare ==
    \/ SaveStoredRun
    \/ CompareLiveVsBacktest

SpecCompare == Init /\ [][NextCompare]_vars

NextCache ==
    \/ CacheSet
    \/ CacheGet
    \/ ReleaseOut

SpecCache == Init /\ [][NextCache]_vars

NextGrade ==
    \/ GradeBet
    \/ ReleaseOut

SpecGrade == Init /\ [][NextGrade]_vars

NextAlias ==
    \/ CallNormalizeTeamName
    \/ ReleaseOut

SpecAlias == Init /\ [][NextAlias]_vars

NextRunner ==
    \/ StartBacktest
    \/ BacktestGame
    \/ FinishBacktest
    \/ ReleaseRunBacktest

SpecRunner == Init /\ [][NextRunner]_vars

SpecStorage == Init /\ [][NextStorage]_vars

SpecAsof == Init /\ [][NextAsof]_vars

NextDataset ==
    \/ OtherDraw
    \/ DeriveGameFeatures
    \/ ProcessRow
    \/ SimulationStep
    \/ ReportReturn
    \/ ReleaseRow

SpecDataset == Init /\ [][NextDataset]_vars

(***************************************************************************)
(* Properties.                                                             *)
(***************************************************************************)
\* a direct run_monte_carlo_simulation call has returned its result
RunReturned == pc = "returned" /\ call.kind = "run"

\* compute_model_report has its simulation results and edge analysis
ReportDone == pc = "reported" /\ call.kind = "report"

\* the loop has folded at least one game of the call in progress
InLoop == pc = "loop" /\ margin_count >= 1

\* C1: two run_monte_carlo_simulation calls with the same integer seed and
\* the same team stats, league average, spread and num_simulations return
\* identical SimulationResults, whatever the generator's state was when
\* each call was made.
C1_SeededRunsAgree ==
    (RunReturned /\ call.seed # NoSeed) =>
        \A p \in prev : p.call = call => p.result = result

\* C1 witness: a seeded run of two or more games has returned, and the same
\* call made earlier from a different generator state is remembered
C1_Witness ==
    /\ RunReturned
    /\ call.seed # NoSeed
    /\ call.num_simulations >= 2
    /\ \E p \in prev : p.call = call /\ p.entry # entry

\* C2: two compute_model_report calls in backtest mode with the same seed
\* and the same inputs produce identical monte_carlo_results, whatever the
\* generator's state was when each call was made.
C2_SeededReportsAgree ==
    (ReportDone /\ call.backtest_mode /\ call.report_seed # NoSeed) =>
        \A p \in prev : p.call = call => p.result = result

\* the margins folded so far that equal x half points
MarginsEqual(x) == {k \in 1 .. Len(margins) : margins[k] * HalfPoint = x}

\* C3: a simulated game is counted as a push iff its home_margin equals
\* -spread: push_count is the number of games so far whose margin is
\* -spread, so a game whose margin is +spread (spread # 0) is not counted.
C3_PushIffMarginIsMinusSpread ==
    pc \in {"loop", "returned", "reported"} =>
        push_count = Cardinality(MarginsEqual(-call.spread))

\* C3 witness: a game ended with home_margin = +spread, spread # 0, and no
\* push has been counted
C3_Witness ==
    /\ InLoop
    /\ call.spread # 0
    /\ MarginsEqual(call.spread) # {}
    /\ push_count = 0

\* C4: when home_margin equals -spread the game comes back with
\* home_covers = False, push_count goes up by one and covers_count stays;
\* no game raises both counters.
C4_PushExcludesCover ==
    [][margin_count' = margin_count + 1 =>
          /\ (game'.home_margin * HalfPoint = -call.spread =>
                  /\ ~game'.home_covers
                  /\ push_count' = push_count + 1
                  /\ covers_count' = covers_count)
          /\ push_count' >= push_count
          /\ covers_count' >= covers_count
          /\ (push_count' - push_count) + (covers_count' - covers_count) <= 1]_vars

\* C4 witness: a game with a non-zero margin equal to -spread was counted
\* as a push
C4_Witness ==
    /\ InLoop
    /\ game.home_margin # 0
    /\ game.home_margin * HalfPoint = -call.spread
    /\ push_count >= 1

\* C5: home_covers is home_margin > |spread| when spread < 0 and
\* home_margin > -spread when spread >= 0; either way it is
\* home_margin + spread > 0.
C5_CoverRule ==
    InLoop =>
        /\ call.spread < 0 =>
               (game.home_covers <=> game.home_margin * HalfPoint > Abs(call.spread))
        /\ call.spread >= 0 =>
               (game.home_covers <=> game.home_margin * HalfPoint > -call.spread)
        /\ game.home_covers <=> game.home_margin * HalfPoint + call.spread > 0

\* C5 witness: the home team is favoured, won, and did not cover
C5_Witness ==
    /\ InLoop
    /\ call.spread < 0
    /\ game.home_margin > 0
    /\ ~game.home_covers

\* C6: after every iteration covers_count + push_count and home_wins are at
\* most the number of games simulated; in the returned summary
\* home_covers_count + push_count <= games_simulated and
\* home_covers_percentage + push_percentage <= 100.
C6_CountsBounded ==
    /\ pc = "loop" =>
           /\ covers_count + push_count <= margin_count
           /\ home_wins <= margin_count
    /\ (RunReturned \/ ReportDone) =>
           /\ result.home_covers_count + result.push_count <= result.games_simulated
           /\ result.home_wins_count <= result.games_simulated
           /\ RLe(RAdd(result.home_covers_percentage, result.push_percentage),
                  RInt(100))

\* C6 witness: a returned summary in which every game was a cover or a
\* push, with both present
C6_Witness ==
    /\ RunReturned
    /\ result.home_covers_count >= 1
    /\ result.push_count >= 1
    /\ result.home_covers_count + result.push_count = result.games_simulated

RECURSIVE SeqSum(_)
SeqSum(q) == IF q = <<>> THEN 0 ELSE q[1] + SeqSum(Tail(q))

\* two-pass mean of a non-empty sequence of integers
TwoPassMean(q) == Rat(SeqSum(q), Len(q))

RECURSIVE SumSquaredDeviations(_, _)
SumSquaredDeviations(q, mean) ==
    IF q = <<>> THEN RInt(0)
    ELSE LET d == RSub(RInt(q[1]), mean)
         IN  RAdd(RMul(d, d), SumSquaredDeviations(Tail(q), mean))

\* two-pass population variance of a non-empty sequence of integers
TwoPassVariance(q) ==
    RDiv(SumSquaredDeviations(q, TwoPassMean(q)), RInt(Len(q)))

\* C7: after folding k >= 1 margins, margin_count = k, margin_mean is their
\* arithmetic mean, margin_m2 the sum of squared deviations from it, and
\* margin_m2 / k the two-pass population variance.
C7_WelfordMatchesTwoPass ==
    /\ InLoop =>
           /\ margin_count = Len(margins)
           /\ margin_mean = TwoPassMean(margins)
           /\ margin_m2 = SumSquaredDeviations(margins, TwoPassMean(margins))
           /\ RDiv(margin_m2, RInt(margin_count)) = TwoPassVariance(margins)
    /\ (RunReturned \/ ReportDone) =>
           /\ result.average_margin = TwoPassMean(margins)
           /\ result.margin_variance = TwoPassVariance(margins)

\* C7 witness: three margins, not all equal, have been folded
C7_Witness ==
    /\ InLoop
    /\ margin_count >= 3
    /\ margins[1] # margins[2]
    /\ margins[2] # margins[3]
    /\ margin_m2 # RInt(0)

\* calculate_betting_edge has returned its dict (directly or inside
\* _evaluate_betting_edge)
EdgeReturned ==
    \/ pc = "returned" /\ call.kind = "edge"
    \/ pc = "reported" /\ call.kind = "evaluate"

ProbabilitySum ==
    RAdd(RAdd(edge_analysis.win_probability, edge_analysis.push_probability),
         edge_analysis.loss_probability)

ClampedLoss ==
    RMax(RInt(0), RSub(RSub(RInt(1), edge_analysis.win_probability),
                       edge_analysis.push_probability))

C9_ExpectedValue ==
    EdgeReturned =>
        /\ edge_analysis.expected_value =
               RSub(RMul(RDiv(result.home_covers_percentage, RInt(100)),
                         RSub(call.decimal_odds, RInt(1))),
                    edge_analysis.loss_probability)
        /\ edge_analysis.edge_percentage =
               RMul(RInt(100), edge_analysis.expected_value)
        /\ (/\ result.home_covers_percentage = RInt(55)
            /\ result.push_percentage = RInt(0)
            /\ call.decimal_odds = Rat(191, 100)) =>
               /\ edge_analysis.expected_value = Rat(505, 10000)
               /\ edge_analysis.edge_percentage = Rat(505, 100)

\* C9 witness: the edge for win 0.55, push 0 at odds 1.91 has been returned
C9_Witness ==
    /\ EdgeReturned
    /\ result.home_covers_percentage = RInt(55)
    /\ result.push_percentage = RInt(0)
    /\ call.decimal_odds = Rat(191, 100)

\* C10: the label is the positive-EV bet iff edge_percentage > 2.0; at 2.0
\* exactly, below it and for a negative edge it is no-bet.
C10_DecisionThreshold ==
    pc = "reported" =>
        /\ decision \in {PositiveEV, NoBet}
        /\ decision = PositiveEV <=> RLt(RInt(2), edge_analysis.edge_percentage)
        /\ RLe(edge_analysis.edge_percentage, RInt(2)) => decision = NoBet

\* C10 witness: an edge of exactly 2.0 was labelled no-bet
C10_Witness ==
    /\ pc = "reported"
    /\ edge_analysis.edge_percentage = RInt(2)
    /\ decision = NoBet

\* C11: run_monte_carlo_simulation with num_simulations <= 0 raises before
\* the generator is seeded and before any game is simulated, and returns no
\* SimulationResults.
C11_NonPositiveCountRaisesFirst ==
    (call.kind = "run" /\ call.num_simulations <= 0) =>
        /\ pc = "raised"
        /\ rng = entry
        /\ margin_count = 0
        /\ margins = <<>>
        /\ game = NoGame
        /\ result = NoResult

\* C11 witness: a call with a count of 0 or -5 and a seed that would have
\* moved the generator has raised
C11_Witness ==
    /\ pc = "raised"
    /\ call.kind = "run"
    /\ call.num_simulations \in {0, -5}
    /\ call.seed # NoSeed
    /\ RngSeed(call.seed) # entry

\* C12: calculate_betting_edge raises and returns nothing for
\* decimal_odds <= 1.0, and returns a result for every decimal_odds > 1.0.
C12_OddsAtMostOneRaise ==
    (call.kind = "edge" /\ pc # "idle") =>
        /\ RLe(call.decimal_odds, RInt(1)) =>
               pc = "raised" /\ edge_analysis = NoEdge
        /\ RLt(RInt(1), call.decimal_odds) =>
               /\ pc = "returned"
               /\ edge_analysis = CalculateBettingEdge(result, call.decimal_odds)

\* C12 witness: the call with decimal_odds = 1.0 has raised
C12_Witness ==
    /\ call.kind = "edge"
    /\ pc = "raised"
    /\ call.decimal_odds = RInt(1)

\* the inputs of a compute_model_report call that are invalid
InvalidReportInput(c) ==
    \/ RLe(c.decimal_odds, RInt(1))
    \/ c.recency_weight < 0
    \/ c.recency_weight > 10
    \/ c.num_simulations <= 0

\* C13: in compute_model_report an invalid input (decimal_odds <= 1.0,
\* recency_weight outside [0, 1], num_simulations <= 0) raises before the
\* first game is simulated.
C13_InvalidInputRaisesBeforeSampling ==
    (call.kind = "report" /\ InvalidReportInput(call)) =>
        /\ pc \in {"loop", "raised"}
        /\ margin_count = 0
        /\ game = NoGame
        /\ rng = entry

\* the request handled asks, outside the presets, for a non-positive number
\* of simulations
NonPositiveCountRequested ==
    /\ request # NoRequest
    /\ SimulationMode(request.simulation_mode) \notin DOMAIN precision_presets
    /\ request.numSimulations.int
    /\ request.numSimulations.value <= 0

\* C14: a non-positive simulation count reaching the /run handler is never
\* replaced by another value: no simulation is run for it and the request
\* ends with an error response.
C14_NonPositiveCountNeverReplaced ==
    NonPositiveCountRequested =>
        /\ call.kind = "report" => call.num_simulations <= 0
        /\ margin_count = 0
        /\ response.sent => ~response.ok

\* C15: for a row whose spread column is a non-negative magnitude, the
\* spread_home_close_signed the backtest passes to the engine as
\* sportsbook_line is negative when the home team is favoured and positive
\* when the away team is favoured.
C15_BacktestSpreadFollowsEngineSign ==
    (row.loaded /\ row.spread > 0) =>
        /\ row.whos_favored = "home" => row.spread_home_close_signed < 0
        /\ row.whos_favored = "away" => row.spread_home_close_signed > 0
        /\ call.kind = "report" =>
               /\ call.spread = row.spread_home_close_signed
               /\ row.whos_favored = "home" => call.spread < 0
               /\ row.whos_favored = "away" => call.spread > 0

\* simulate_single_game, called on its own, has returned its GameResult
GameReturned == pc = "returned" /\ call.kind = "game"

\* C16: every GameResult simulate_single_game returns has integer scores of
\* at least 70, home_margin = home_score - away_score and
\* total_points = home_score + away_score.
C16_ScoresAtLeastSeventy ==
    GameReturned =>
        /\ game.home_score \in Int /\ game.home_score >= 70
        /\ game.away_score \in Int /\ game.away_score >= 70
        /\ game.home_margin = game.home_score - game.away_score
        /\ game.total_points = game.home_score + game.away_score

\* C16 witness: the weak team, at home against the strong one, was held at
\* the minimum of 70 and lost by more than 30
C16_Witness ==
    /\ GameReturned
    /\ call.home = "W"
    /\ call.away = "S"
    /\ game.home_score = 70
    /\ game.home_margin < -30

\* _compute_efficiency_multiplier, called on its own, has returned
MultiplierReturned == pc = "returned" /\ call.kind = "multiplier"

\* the twelve values the returned call sampled
ReturnedSample ==
    SampledFactors(GameProfile(call.home), GameProfile(call.away), entry)

\* all twelve sampled values equal their league averages
SampleAtLeagueAverage(s) ==
    /\ \A f \in DOMAIN LEAGUE_AVG_FOUR_FACTORS :
           s[f] = LEAGUE_AVG_FOUR_FACTORS[f]
    /\ s.opp_efg_pct = LEAGUE_AVG_FOUR_FACTORS.efg_pct
    /\ s.opp_fta_rate = LEAGUE_AVG_FOUR_FACTORS.fta_rate
    /\ s.opp_tov_pct = LEAGUE_AVG_FOUR_FACTORS.tov_pct
    /\ s.opp_oreb_pct = LEAGUE_AVG_FOUR_FACTORS.oreb_pct
    /\ \A f \in DOMAIN LEAGUE_AVG_MISC : s[f] = LEAGUE_AVG_MISC[f]
    /\ s.opp_pts_off_tov = LEAGUE_AVG_MISC.pts_off_tov
    /\ s.opp_pts_2nd_chance = LEAGUE_AVG_MISC.pts_2nd_chance

\* C20: the value _compute_efficiency_multiplier returns lies within
\* [0.85, 1.15], and is 1.0 when all twelve sampled values equal their
\* league averages.
C20_MultiplierBounded ==
    MultiplierReturned =>
        /\ 850000 <= multiplier
        /\ multiplier <= 1150000
        /\ SampleAtLeagueAverage(ReturnedSample) => multiplier = 1000000

\* C20 witness: a sample whose weighted sum is below 0.85 was raised to 0.85
C20_Witness ==
    /\ MultiplierReturned
    /\ UnclampedMultiplier(ReturnedSample) < 850000
    /\ multiplier = 850000

\* the upper bound of C20 is reached too: a weighted sum above 1.15 was cut
C20_UpperBoundCase ==
    /\ MultiplierReturned
    /\ UnclampedMultiplier(ReturnedSample) > 1150000
    /\ multiplier = 1150000

\* the league-average case of C20 occurs: all twelve values sampled at the
\* league averages
C20_LeagueAverageCase ==
    MultiplierReturned /\ SampleAtLeagueAverage(ReturnedSample)

\* the margins folded so far are all the same
AllMarginsEqual ==
    \A i \in 1 .. Len(margins) : margins[i] = margins[1]

\* C17: when all N simulated margins are equal (N = 1 included),
\* run_monte_carlo_simulation returns without error, with margin_std = 0
\* and confidence_interval_95 = (average_margin, average_margin).
C17_ZeroVarianceCollapses ==
    /\ (call.kind = "run" /\ pc = "raised") => call.num_simulations <= 0
    /\ (RunReturned /\ AllMarginsEqual) =>
           /\ result.average_margin = RInt(margins[1])
           /\ result.margin_std = 0
           /\ result.confidence_interval_95 =
                  <<result.average_margin, result.average_margin>>

\* C17 witness: a run of two or more games, all with the same margin, has
\* returned
C17_Witness ==
    /\ RunReturned
    /\ Len(margins) >= 2
    /\ AllMarginsEqual

\* the one-game case of C17 occurs
C17_SingleGameCase == RunReturned /\ Len(margins) = 1

\* runs with a positive spread of margins return a positive margin_std and
\* a confidence interval around the average
C17_SpreadCase ==
    /\ RunReturned
    /\ result.margin_std > 0
    /\ RLt(result.confidence_interval_95[1], result.average_margin)
    /\ RLt(result.average_margin, result.confidence_interval_95[2])

\* C18: when the steps of two run_monte_carlo_simulation calls interleave
\* in one process, each call returns the result it would return running
\* alone with the same seed.
C18_InterleavedRunsAsAlone ==
    /\ (RunReturned /\ call.seed # NoSeed) => result = RunAlone(call)
    /\ peer.pc = "returned" => peer.result = RunAlone(peer.call)

\* a seeded run with no other draw from the generator during it returns
\* what RunAlone says
SeededRunAsAlone ==
    (RunReturned /\ call.seed # NoSeed) => result = RunAlone(call)

\* get_team_stats_asof has returned a dict
StatsReturned == team_stats.as_of # 0

\* the games some returned statistic was computed from
ContributingGames ==
    team_stats.season \cup team_stats.four_factors \cup team_stats.misc
        \cup team_stats.last_n

\* C19: whichever API path is taken, no game after as_of contributes to the
\* season, four-factor, misc or last-N values get_team_stats_asof returns.
C19_NoGameAfterAsOf ==
    StatsReturned => \A d \in ContributingGames : d <= team_stats.as_of

\* the last-N values come from the games strictly before as_of
LastNBeforeAsOf ==
    StatsReturned => \A d \in team_stats.last_n : d < team_stats.as_of

\* the six values sampled for the offence, with the league average, the
\* weight and the sampling bounds _compute_efficiency_multiplier gives each
OffenceFactors ==
    {[name |-> "efg_pct", league_avg |-> LEAGUE_AVG_FOUR_FACTORS.efg_pct,
      weight |-> FOUR_FACTOR_WEIGHTS.efg_pct, lower |-> 450, upper |-> 650],
     [name |-> "fta_rate", league_avg |-> LEAGUE_AVG_FOUR_FACTORS.fta_rate,
      weight |-> FOUR_FACTOR_WEIGHTS.fta_rate, lower |-> 150, upper |-> 350],
     [name |-> "tov_pct", league_avg |-> LEAGUE_AVG_FOUR_FACTORS.tov_pct,
      weight |-> FOUR_FACTOR_WEIGHTS.tov_pct, lower |-> 80, upper |-> 220],
     [name |-> "oreb_pct", league_avg |-> LEAGUE_AVG_FOUR_FACTORS.oreb_pct,
      weight |-> FOUR_FACTOR_WEIGHTS.oreb_pct, lower |-> 180, upper |-> 360],
     [name |-> "pts_off_tov", league_avg |-> LEAGUE_AVG_MISC.pts_off_tov,
      weight |-> MISC_FACTOR_WEIGHTS.pts_off_tov, lower |-> 80, upper |-> 260],
     [name |-> "pts_2nd_chance", league_avg |-> LEAGUE_AVG_MISC.pts_2nd_chance,
      weight |-> MISC_FACTOR_WEIGHTS.pts_2nd_chance, lower |-> 60,
      upper |-> 220]}

\* the values one sampled factor is moved to: its neighbours and every
\* tenth value of its sampling range
MovedValues(f, value) ==
    {v \in f.lower .. f.upper :
        v \in {value - 1, value + 1} \/ (v - f.lower) % 10 = 0}

\* the change of the unclamped multiplier, in millionths, when factor f of
\* the sample s is moved to v and the other eleven values stay
MultiplierChange(s, f, v) ==
    UnclampedMultiplier([s EXCEPT ![f.name] = v]) - UnclampedMultiplier(s)

\* +1 for the five factors where more is better for the offence, -1 for
\* turnovers
FactorDirection(f) == IF f.name = "tov_pct" THEN -1 ELSE 1

\* C21: with the other eleven sampled values fixed, the unclamped multiplier
\* never decreases when the offence's efg_pct, fta_rate, oreb_pct,
\* pts_off_tov or pts_2nd_chance increases and never increases when its
\* tov_pct increases; a change of one league average in a factor moves the
\* multiplier by weight/2, that is a change of dv moves it by
\* weight * dv / (2 * league_avg), here up to the rounding of the two
\* fixed-point quotients (less than weight + 1 millionths).
C21_MultiplierMonotoneInOffence ==
    MultiplierReturned =>
        \A f \in OffenceFactors :
            \A v \in MovedValues(f, ReturnedSample[f.name]) :
                LET dv == v - ReturnedSample[f.name]
                    dm == MultiplierChange(ReturnedSample, f, v)
                IN  /\ dv >= 0 => FactorDirection(f) * dm >= 0
                    /\ dv <= 0 => FactorDirection(f) * dm <= 0
                    /\ Abs(2 * f.league_avg * dm
                           - FactorDirection(f) * f.weight * 10000 * dv)
                           <= 2 * f.league_avg * (f.weight + 1)

\* C21 witness: a returned sample whose turnover rate can rise by a
\* hundredth, which lowers the multiplier, and whose efg_pct can rise by a
\* hundredth, which raises it
C21_Witness ==
    /\ MultiplierReturned
    /\ ReturnedSample.tov_pct + 10 <= 220
    /\ UnclampedMultiplier([ReturnedSample EXCEPT !.tov_pct = @ + 10])
           < UnclampedMultiplier(ReturnedSample)
    /\ ReturnedSample.efg_pct + 10 <= 650
    /\ UnclampedMultiplier([ReturnedSample EXCEPT !.efg_pct = @ + 10])
           > UnclampedMultiplier(ReturnedSample)

\* C22: once more than 50 summaries have been saved, backtest_history.json
\* holds exactly the 50 most recently saved summaries; before that it holds
\* all of them.
C22_HistoryKeepsMostRecent ==
    /\ Len(results_dir.history) = Min(Len(results_dir.saved), HistoryLimit)
    /\ Range(results_dir.history)
           = Range(LastOf(results_dir.saved, HistoryLimit))

\* up to 50 saved summaries the history file holds all of them
HistoryHoldsAllUpToLimit ==
    Len(results_dir.saved) <= HistoryLimit =>
        Range(results_dir.history) = Range(results_dir.saved)

\* run_backtest is in or past its game loop
InBacktest == backtest.pc # "idle"

\* the bets recorded for a date
BetsOn(date) ==
    {i \in Range(backtest.per_game_results) : backtest.games[i] = date}

\* C23: at every point of the game loop the bets recorded for a date are at
\* most max_bets_per_day, and no row is processed whose date had reached
\* the cap with the rows before it.
C23_DailyCapHolds ==
    InBacktest =>
        /\ \A date \in 1 .. MaxDate :
               /\ Cardinality(BetsOn(date)) <= backtest.max_daily_bets
               /\ DailyBets(backtest.daily_bet_counts, date)
                      = Cardinality(BetsOn(date))
        /\ \A i \in backtest.processed :
               Cardinality({j \in BetsOn(backtest.games[i]) : j < i})
                   < backtest.max_daily_bets

\* C23 witness: a row was skipped because its date was at the cap
C23_Witness ==
    /\ InBacktest
    /\ backtest.last = "capped"
    /\ backtest.max_daily_bets >= 1
    /\ Cardinality(BetsOn(backtest.games[backtest.idx - 1]))
           = backtest.max_daily_bets

\* C24: when processing a game fails, run_backtest leaves per_game_results,
\* bet_counts and daily_bet_counts unchanged and goes on to the next row.
C24_FailedGameSkipped ==
    [][(backtest.pc = "loop" /\ backtest'.pc = "loop"
            /\ backtest'.idx # backtest.idx
            /\ backtest'.last \in GameFailures)
        => /\ backtest'.per_game_results = backtest.per_game_results
           /\ backtest'.bet_counts = backtest.bet_counts
           /\ backtest'.daily_bet_counts = backtest.daily_bet_counts
           /\ backtest'.idx = backtest.idx + 1]_vars

\* C24 witness: a row failed and a later row of the same run gave a bet
C24_Witness ==
    /\ InBacktest
    /\ \E i \in backtest.failed :
           \E j \in Range(backtest.per_game_results) : i < j

\* C25: whenever at least one bet was generated, run_backtest completes and
\* returns its results dictionary.
C25_BacktestWithBetsReturns ==
    (backtest.pc \in {"returned", "raised"}
        /\ backtest.per_game_results # <<>>)
    => backtest.pc = "returned"

\* compare_live_vs_backtest returned a comparison for a given backtest_id
ComparedWithGivenId ==
    /\ out.kind = "comparison"
    /\ out.requested # NoBacktestId

\* C26: when compare_live_vs_backtest is given a backtest_id, the benchmark
\* metrics and the backtest_id of the returned comparison are those of the
\* stored run with that id.
C26_ComparisonUsesGivenRun ==
    ComparedWithGivenId =>
        /\ ~out.error
        /\ out.backtest_id = out.requested
        /\ \E r \in Range(results_dir.saved) :
               /\ r.run_id = out.requested
               /\ r.roi_pct = out.benchmark_roi_pct

\* without a backtest_id the comparison is with the latest run
ComparisonDefaultsToLatest ==
    (out.kind = "comparison" /\ out.requested = NoBacktestId /\ ~out.error)
    => \E r \in Range(results_dir.saved) :
           /\ r.run_id = out.backtest_id
           /\ r.roi_pct = out.benchmark_roi_pct
           /\ \A q \in Range(results_dir.saved) :
                  q.timestamp > r.timestamp => q.timestamp > out.as_of

\* normalize_team_name returned an abbreviation
NameNormalized == out.kind = "normalized" /\ ~out.raised

\* C27: normalize_team_name returns a canonical abbreviation: for every
\* non-empty input x, normalize_team_name(normalize_team_name(x)) =
\* normalize_team_name(x).
C27_NormalizeIdempotent ==
    NameNormalized =>
        normalize_team_name(out.value)
            = [raised |-> FALSE, value |-> out.value]

\* the result is in lower case without surrounding blanks
NormalizedIsLowerStripped ==
    NameNormalized => ~out.value.upper /\ ~out.value.padded

\* SimpleCache.get has returned
CacheGetReturned == out.kind = "got"

\* C28: get(endpoint, params) returns the data of the most recent set for
\* the same endpoint and the same params mapping, whatever the order of
\* the params keys, and None when no set for that key has happened.
C28_GetReturnsLatestSet ==
    CacheGetReturned =>
        IF out.key \in DOMAIN api_cache
        THEN ~out.none /\ out.frame = api_cache[out.key].data
        ELSE out.none

\* get finds the file of the latest set whatever the order of the keys,
\* and the rows it returns are the rows that were set
GetReturnsRowsOfLatestSet ==
    CacheGetReturned =>
        IF out.key \in DOMAIN api_cache
        THEN ~out.none /\ out.frame.rows = api_cache[out.key].data.rows
        ELSE out.none

\* the runner graded a bet on the home side
HomeBetGraded == out.kind = "graded" /\ out.side = "home"

\* C29: the runner grades a home-side bet the way the engine classifies a
\* simulated game: for margin m and spread line s it reports push, cover or
\* loss exactly when the engine's rules (push iff m = -s, cover iff
\* m + s > 0) do.
C29_GradingMatchesEngine ==
    HomeBetGraded =>
        out.outcome = EngineOutcome(out.final_margin_home,
                                    out.spread_home_close_signed)

\* the runner's grading is the engine's for the line with the opposite sign
GradingMatchesEngineOppositeSign ==
    HomeBetGraded =>
        out.outcome = EngineOutcome(out.final_margin_home,
                                    -out.spread_home_close_signed)

\* C30: for every summary with win_prob + push_prob <= 1 and every
\* decimal_odds > 1, calculate_betting_edge returns expected_value =
\* decimal_odds * probability_difference, so expected_value is positive
\* exactly when win_probability exceeds breakeven_probability and zero
\* exactly when they are equal.
C30_ExpectedValueIsOddsTimesDifference ==
    EdgeReturned =>
        /\ edge_analysis.breakeven_probability =
               RDiv(RSub(RInt(1), edge_analysis.push_probability),
                    call.decimal_odds)
        /\ edge_analysis.probability_difference =
               RSub(edge_analysis.win_probability,
                    edge_analysis.breakeven_probability)
        /\ edge_analysis.expected_value =
               RMul(call.decimal_odds, edge_analysis.probability_difference)
        /\ RLt(RInt(0), edge_analysis.expected_value)
               <=> RLt(edge_analysis.breakeven_probability,
                       edge_analysis.win_probability)
        /\ edge_analysis.expected_value = RInt(0)
               <=> edge_analysis.win_probability
                       = edge_analysis.breakeven_probability

\* C30 witness: with pushes possible, the win probability equals the
\* break-even probability and the expected value is zero
C30_Witness ==
    /\ EdgeReturned
    /\ RLt(RInt(0), edge_analysis.push_probability)
    /\ edge_analysis.win_probability = edge_analysis.breakeven_probability
    /\ edge_analysis.expected_value = RInt(0)

\* the positive case of C30 occurs with pushes possible
C30_PositiveCase ==
    /\ EdgeReturned
    /\ RLt(RInt(0), edge_analysis.push_probability)
    /\ RLt(RInt(0), edge_analysis.expected_value)

====
